---------------------------- MODULE Spec2Model ----------------------------
(* A model of the AI-processor service: the exponential_backoff retry      *)
(* decorator (utils/retry.py), BedrockClient.invoke / invoke_with_tool     *)
(* (bedrock/client.py), extract_tool_result (bedrock/tools.py) and the     *)
(* orchestrators built on them (document_analyzer.py, letter_generator.py, *)
(* refinement/feedback_handler.py).                                        *)
(*                                                                         *)
(* Python dicts are functions whose DOMAIN is the set of keys present;     *)
(* dict.get(k, default) is Get.  Exceptions are records with a cls field   *)
(* and a msg field, which is str(e).                                       *)
(* Durations are kept in hundredths of the delay unit so that the jitter   *)
(* factor, a percentage in [50, 100), stays in integer arithmetic.         *)
EXTENDS Integers, Sequences, FiniteSets, TLC

VARIABLES
    func,             \* the decorated function: "func" (any callable) or "invoke"
    max_retries,      \* decorator argument
    base_delay,       \* decorator argument
    max_delay,        \* decorator argument
    jitter,           \* decorator argument
    attempt,          \* the loop variable of wrapper: index of the next attempt
    calls,            \* number of calls of the wrapped function so far
    converse_calls,   \* number of client.converse calls of the current operation
    sleeps,           \* the time.sleep arguments so far, in hundredths
    last_exception,   \* wrapper's local last_exception
    wstate,           \* "idle" | "running" | "returned" | "raised"
    wresult,          \* what left the wrapper: the value returned or the exception raised
    outcomes,         \* class of each attempt's outcome, in call order
    last_outcome,     \* the full outcome of the most recent call of the wrapped function
    op,               \* the orchestrator operation in progress (None when none)
    ostate,           \* "idle" | "invoking" | "done"
    extracted,        \* what extract_tool_result did for the operation (None: not called)
    oresult,          \* how the operation ended: [kind |-> "return" | "raise", val |-> ...]
    conversation_histories,  \* FeedbackHandler.conversation_histories: session id -> history
    local_history     \* the ConversationHistory refine_letter creates when given none

wvars == <<func, max_retries, base_delay, max_delay, jitter, attempt, calls,
           converse_calls, sleeps, last_exception, wstate, wresult, outcomes,
           last_outcome>>
ovars == <<op, ostate, extracted, oresult, conversation_histories, local_history>>
vars == <<wvars, ovars>>

-----------------------------------------------------------------------------
(* Bounds of the model *)

MaxRetriesBound == 3      \* max_retries ranges over 0..MaxRetriesBound
MaxBlocks == 2            \* content lists hold at most MaxBlocks blocks
MaxPages == 2             \* PDF files hold at most MaxPages pages
MaxEdits == 2             \* checked letters differ from a complete or empty one in at most MaxEdits fields
MaxVersion == 4           \* versions 0..MaxVersion are asked for
MaxDamages == 3           \* damage lists hold at most MaxDamages entries
MaxBatch == 3             \* feedback lists hold at most MaxBatch items
MaxMessages == 6          \* a session's transcript holds at most MaxMessages messages

-----------------------------------------------------------------------------
(* Python values *)

None == [none |-> TRUE]

\* None where a str is expected (Optional[str]); kept a string so that it
\* can be compared with the strings it stands beside
NoneStr == "<None>"

\* dict.get(k, default)
Get(d, k, default) == IF k \in DOMAIN d THEN d[k] ELSE default

\* a dict holding exactly the keys of ks, each with its value in full
Restrict(full, ks) == [k \in ks |-> full[k]]

Min(a, b) == IF a <= b THEN a ELSE b

Pow2(n) == 2 ^ n

-----------------------------------------------------------------------------
(* Exceptions: bedrock/exceptions.py and botocore's ClientError *)

\* e.response of a botocore ClientError: "Error" and "ResponseMetadata" may
\* each be absent, and so may "Code" and "HTTPStatusCode" inside them.
ErrorDicts == {<<>>} \cup {[Code |-> c] : c \in {"ThrottlingException", "ValidationException"}}

MetadataDicts == {<<>>} \cup {[HTTPStatusCode |-> s] : s \in {400, 429, 500, 503}}

ClientErrorResponses ==
    { Restrict([Error |-> e, ResponseMetadata |-> m], ks) :
        e \in ErrorDicts, m \in MetadataDicts,
        ks \in SUBSET {"Error", "ResponseMetadata"} }

ClientError(response) ==
    [cls |-> "ClientError", response |-> response, msg |-> "An error occurred (boto)"]

ClientErrors == { ClientError(r) : r \in ClientErrorResponses }

BedrockThrottlingError(msg) ==
    [cls |-> "BedrockThrottlingError", msg |-> msg]

BedrockServerError(msg, status_code) ==
    [cls |-> "BedrockServerError", msg |-> msg, status_code |-> status_code]

BedrockValidationError(msg) ==
    [cls |-> "BedrockValidationError", msg |-> msg]

ValueError(msg) ==
    [cls |-> "ValueError", msg |-> msg]

\* the classified exceptions the wrapped function may raise itself
ClassifiedErrors ==
    { BedrockThrottlingError("throttled"), BedrockServerError("unavailable", 503) }

\* exceptions of any other type
OtherErrors ==
    { [cls |-> "Exception", msg |-> "x"],
      [cls |-> "BedrockClientError", msg |-> "bad request", status_code |-> 400],
      [cls |-> "EndpointConnectionError", msg |-> "could not connect"] }

-----------------------------------------------------------------------------
(* The retry decorator: utils/retry.py *)

\* the decorator arguments tried for an arbitrary wrapped function
BaseDelays == {1, 2}
MaxDelays == {3, 60}

\* random.random() * 0.5 + 0.5, as a percentage: a factor in [0.5, 1.0)
JitterPercents == {50, 99}

\* @exponential_backoff(max_retries=3, base_delay=1.0, max_delay=60.0) on invoke
InvokeMaxRetries == 3
InvokeBaseDelay == 1
InvokeMaxDelay == 60
InvokeJitter == TRUE

\* what one call of the wrapped function can do
Returned(v) == [kind |-> "return", val |-> v]
Raised(e) == [kind |-> "raise", val |-> e]

\* lines 56-59: error_code and status_code of a ClientError
ErrorCode(e) == Get(Get(e.response, "Error", <<>>), "Code", "")
StatusCode(e) == Get(Get(e.response, "ResponseMetadata", <<>>), "HTTPStatusCode", 0)

\* lines 62-74: the branch a ClientError takes
\* a variant that asks for the error code and the status together
IsThrottling_CodeAndStatus(e) ==
    ErrorCode(e) = "ThrottlingException" /\ StatusCode(e) = 429
IsThrottling(e) == ErrorCode(e) = "ThrottlingException" \/ StatusCode(e) = 429
\* a variant that takes every 4xx status for a server error
IsServerError_From400(e) == ~IsThrottling(e) /\ StatusCode(e) >= 400
IsServerError(e) == ~IsThrottling(e) /\ StatusCode(e) >= 500

\* a variant that maps every retryable ClientError to BedrockServerError
MapClientError_AlwaysServer(e) ==
    BedrockServerError(
        "Server error (status " \o ToString(StatusCode(e)) \o "): " \o e.msg,
        StatusCode(e))

\* the exception the wrapper maps a retryable ClientError to (lines 63-70)
MapClientError(e) ==
    IF IsThrottling(e)
    THEN BedrockThrottlingError("Rate limit exceeded: " \o e.msg)
    ELSE BedrockServerError(
             "Server error (status " \o ToString(StatusCode(e)) \o "): " \o e.msg,
             StatusCode(e))

\* the class of an attempt's outcome, as the except clauses tell them apart
OutcomeClass(o) ==
    IF o.kind = "return" THEN "returned"
    ELSE IF o.val.cls = "ClientError"
         THEN IF IsThrottling(o.val) THEN "throttling"
              ELSE IF IsServerError(o.val) THEN "server"
              ELSE "nonretryable"
    ELSE IF o.val.cls = "BedrockThrottlingError" THEN "throttling"
    ELSE IF o.val.cls = "BedrockServerError" THEN "server"
    ELSE "nonretryable"

\* a variant that gives up one attempt early
Exhausted_OneEarly(a, n) == a + 1 >= n

\* line 77 / line 92: no retry is left for this attempt
Exhausted(a, n) == a >= n

\* a variant that leaves out the cap
BackoffDelay_NoCap(base, a, cap) == base * Pow2(a)

\* lines 81 and 96: the delay before the next attempt, before jitter
BackoffDelay(base, a, cap) == Min(base * Pow2(a), cap)

\* lines 84-85 and 97-98: the argument of time.sleep, in hundredths
SleepArg(delay, j, pct) == IF j THEN delay * pct ELSE delay * 100

\* a variant whose loop does not advance to the next attempt
SleepAndLoop_NoAdvance(pct) ==
    /\ sleeps' = Append(sleeps,
                        SleepArg(BackoffDelay(base_delay, attempt, max_delay), jitter, pct))
    /\ attempt' = attempt
    /\ UNCHANGED <<wstate, wresult>>

\* time.sleep(delay) followed by the next iteration of the for loop
SleepAndLoop(pct) ==
    /\ sleeps' = Append(sleeps,
                        SleepArg(BackoffDelay(base_delay, attempt, max_delay), jitter, pct))
    /\ attempt' = attempt + 1
    /\ UNCHANGED <<wstate, wresult>>

\* the exception leaves the wrapper
Leave(e) ==
    /\ wstate' = "raised"
    /\ wresult' = e
    /\ UNCHANGED <<sleeps, attempt>>

\* line 53: func(*args, **kwargs) is called; invoke calls client.converse once
CallFunc(o) ==
    /\ wstate = "running"
    /\ attempt <= max_retries
    /\ calls' = calls + 1
    /\ converse_calls' = IF func = "invoke" THEN converse_calls + 1 ELSE converse_calls
    /\ outcomes' = Append(outcomes, OutcomeClass(o))
    /\ last_outcome' = o
    /\ UNCHANGED <<func, max_retries, base_delay, max_delay, jitter>>

\* line 53: the call returns, and so does the wrapper
AttemptReturns(v) ==
    /\ CallFunc(Returned(v))
    /\ wstate' = "returned"
    /\ wresult' = v
    /\ UNCHANGED <<sleeps, attempt, last_exception>>

\* lines 55-87: the call raises a botocore ClientError
AttemptClientError(e, pct) ==
    /\ CallFunc(Raised(e))
    /\ IF IsThrottling(e) \/ IsServerError(e)
       THEN /\ last_exception' = MapClientError(e)
            /\ IF Exhausted(attempt, max_retries)
               THEN Leave(MapClientError(e))
               ELSE SleepAndLoop(pct)
       ELSE /\ Leave(e)
            /\ UNCHANGED last_exception

\* lines 89-100: the call raises BedrockThrottlingError or BedrockServerError
AttemptClassified(e, pct) ==
    /\ CallFunc(Raised(e))
    /\ last_exception' = e
    /\ IF Exhausted(attempt, max_retries)
       THEN Leave(e)
       ELSE SleepAndLoop(pct)

\* the call raises an exception no except clause of the wrapper matches
AttemptOther(e) ==
    /\ CallFunc(Raised(e))
    /\ Leave(e)
    /\ UNCHANGED last_exception

\* the jitter factor is drawn only when jitter is on
Pcts == IF jitter THEN JitterPercents ELSE {100}

-----------------------------------------------------------------------------
(* Structured values: schemas/extraction.py and schemas/letter.py *)

\* the seven sections of GeneratedLetter, in declaration order
LetterSections ==
    <<"header", "introduction", "facts", "liability", "damages", "demand", "closing">>

\* the fields of each section that have no default (Field(...))
SectionRequired ==
    [header       |-> {"date", "recipient_name", "recipient_address", "subject_line"},
     introduction |-> {"content", "client_name"},
     facts        |-> {"content"},
     liability    |-> {"content"},
     damages      |-> {"content", "total_damages"},
     demand       |-> {"content", "demand_amount"},
     closing      |-> {"content", "signature_block"}]

\* the fields of each section that have a default, with that default
SectionDefaults ==
    [header       |-> [recipient_title |-> NoneStr, salutation |-> "Dear Sir or Madam:"],
     introduction |-> [attorney_name |-> NoneStr, law_firm |-> NoneStr],
     facts        |-> [incident_date |-> NoneStr, key_facts_count |-> 0],
     liability    |-> [legal_theories |-> <<>>, evidence_citations |-> <<>>],
     damages      |-> [medical_expenses |-> None, lost_wages |-> None,
                       property_damage |-> None, pain_suffering |-> None],
     demand       |-> [response_deadline |-> NoneStr, consequences_stated |-> FALSE],
     closing      |-> [closing_phrase |-> "Sincerely,"]]

\* the required fields and the defaults of ExtractedData and DocumentMetadata
ExtractedDataRequired == {"metadata", "summary"}
ExtractedDataDefaults ==
    [parties |-> <<>>, incident |-> None, damages |-> <<>>, case_facts |-> <<>>,
     total_damages_estimate |-> None, extraction_notes |-> NoneStr]
MetadataRequired == {"document_type"}
MetadataDefaults == [document_date |-> None, author |-> NoneStr, document_number |-> NoneStr]

\* pydantic construction of one model from a dict: every required field must
\* be present; a field left out takes its default; other keys are ignored
HasRequired(d, required) == required \subseteq DOMAIN d
Construct(d, required, defaults) ==
    [k \in required \cup DOMAIN defaults |-> IF k \in DOMAIN d THEN d[k] ELSE defaults[k]]

\* DocumentMetadata(...) and ExtractedData(...)
ValidMetadata(d) == HasRequired(d, MetadataRequired)
ValidExtractedData(d) ==
    /\ HasRequired(d, ExtractedDataRequired)
    /\ ValidMetadata(d.metadata)
MakeExtractedData(d) ==
    Construct([d EXCEPT !.metadata = Construct(@, MetadataRequired, MetadataDefaults)],
              ExtractedDataRequired, ExtractedDataDefaults)

\* GeneratedLetter(...)
SectionNames == {LetterSections[i] : i \in 1..Len(LetterSections)}
ValidLetter(d) ==
    /\ HasRequired(d, SectionNames)
    /\ \A sec \in SectionNames : HasRequired(d[sec], SectionRequired[sec])
MakeLetter(d) ==
    [sec \in SectionNames |-> Construct(d[sec], SectionRequired[sec], SectionDefaults[sec])]

\* model.model_validate(tool_input) for the two models used as tool schemas
ModelValid(model, d) ==
    IF model = "ExtractedData" THEN ValidExtractedData(d) ELSE ValidLetter(d)
ModelValidate(model, d) ==
    IF model = "ExtractedData" THEN MakeExtractedData(d) ELSE MakeLetter(d)

\* letter_generator.py lines 178-191: the letter of a failed generation
EmptyLetter ==
    MakeLetter(
        [header       |-> [date |-> "", recipient_name |-> "", recipient_address |-> "",
                           subject_line |-> ""],
         introduction |-> [content |-> "", client_name |-> ""],
         facts        |-> [content |-> ""],
         liability    |-> [content |-> ""],
         damages      |-> [content |-> "", total_damages |-> 0],
         demand       |-> [content |-> "", demand_amount |-> 0],
         closing      |-> [content |-> "", signature_block |-> ""]])

\* document_analyzer.py lines 218-221: the data of a failed extraction
PlaceholderData(document_type) ==
    MakeExtractedData(
        [metadata |-> [document_type |-> IF document_type = NoneStr \/ document_type = ""
                                         THEN "unknown" ELSE document_type],
         summary  |-> "Extraction failed"])

-----------------------------------------------------------------------------
(* Responses of client.converse, and extract_tool_result: bedrock/tools.py *)

\* a payload that validates as ExtractedData
SampleData ==
    [metadata |-> [document_type |-> "police_report"], summary |-> "Rear-end collision"]

\* payloads that validate as GeneratedLetter; B differs from A in facts.content
LetterDictA ==
    [header       |-> [date |-> "January 15, 2024", recipient_name |-> "ABC Insurance",
                       recipient_address |-> "1 Main St", subject_line |-> "Re: Claim 12345"],
     introduction |-> [content |-> "We represent John Doe.", client_name |-> "John Doe"],
     facts        |-> [content |-> "On January 1 the insured struck our client."],
     liability    |-> [content |-> "The insured was negligent."],
     damages      |-> [content |-> "Medical expenses and lost wages.", total_damages |-> 15000],
     demand       |-> [content |-> "We demand settlement.", demand_amount |-> 45000],
     closing      |-> [content |-> "We await your response.", signature_block |-> "Jane Smith, Esq."]]
LetterDictB ==
    [LetterDictA EXCEPT !.facts.content = "On January 1 the insured ran a red light."]

\* a payload that validates as neither: the closing section is missing
InvalidDict == Restrict(LetterDictA, SectionNames \ {"closing"})

ToolInputs == {SampleData, LetterDictA, InvalidDict}

\* toolUse dicts: empty, without "input", and with each input
ToolUses ==
    {<<>>, [toolUseId |-> "tu_1", name |-> "tool"]}
    \cup {[toolUseId |-> "tu_1", name |-> "tool", input |-> p] : p \in ToolInputs}

\* content blocks: text blocks and toolUse blocks
Blocks == {[text |-> "Here is the result."]} \cup {[toolUse |-> tu] : tu \in ToolUses}

SeqsUpTo(S, n) == UNION {[1..k -> S] : k \in 0..n}

Contents == SeqsUpTo(Blocks, MaxBlocks)

Usages == {[inputTokens |-> 120, outputTokens |-> 45]}

\* a response with its content list
ResponseWith(c) == [output |-> [message |-> [role |-> "assistant", content |-> c]]]

\* responses whose "output", "message" or "content" key is missing
Truncated == {<<>>, [output |-> <<>>], [output |-> [message |-> [role |-> "assistant"]]]}

WithUsage(r, u) == [k \in DOMAIN r \cup {"usage"} |-> IF k = "usage" THEN u ELSE r[k]]

Responses ==
    LET bare == {ResponseWith(c) : c \in Contents} \cup Truncated
    IN  bare \cup {WithUsage(r, u) : r \in bare, u \in Usages}

\* line 71: the content list of a response
ContentOf(response) ==
    Get(Get(Get(response, "output", <<>>), "message", <<>>), "content", <<>>)

\* lines 74-78: the toolUse of the first block that has one, else None
FirstToolUse(content) ==
    LET idx == {i \in 1..Len(content) : "toolUse" \in DOMAIN content[i]}
    IN  IF idx = {} THEN None
        ELSE content[CHOOSE i \in idx : \A j \in idx : i <= j].toolUse

\* line 80: "not tool_use" holds of None and of the empty dict
Falsy(tool_use) == tool_use = None \/ DOMAIN tool_use = {}

\* a variant that validates the input without testing that a toolUse was found
extract_tool_result_NoCheck(response, model) ==
    LET tool_input == Get(FirstToolUse(ContentOf(response)), "input", <<>>)
    IN  IF ModelValid(model, tool_input)
        THEN Returned(ModelValidate(model, tool_input))
        ELSE Raised(BedrockValidationError(
                 "Tool output validation failed: " \o "1 validation error"))

\* lines 54-90
extract_tool_result(response, model) ==
    LET tool_use == FirstToolUse(ContentOf(response))
        tool_input == Get(tool_use, "input", <<>>)
    IN  IF Falsy(tool_use)
        THEN Raised(BedrockValidationError("No tool use found in response"))
        ELSE IF ModelValid(model, tool_input)
        THEN Returned(ModelValidate(model, tool_input))
        ELSE Raised(BedrockValidationError(
                 "Tool output validation failed: " \o "1 validation error"))

-----------------------------------------------------------------------------
(* The wrapper alone: one invocation of a decorated function, for every     *)
(* choice of the decorator arguments and of the outcomes of its calls.      *)

\* values the wrapped function returns in this specification
RetryValues == {ResponseWith(<<>>), ResponseWith(<<[text |-> "Here is the result."]>>)}

\* the wrapper's locals when it is entered
EnterWrapper ==
    /\ attempt = 0
    /\ calls = 0
    /\ converse_calls = 0
    /\ sleeps = <<>>
    /\ last_exception = None
    /\ wstate = "running"
    /\ wresult = None
    /\ outcomes = <<>>
    /\ last_outcome = None

NoOperation ==
    /\ op = None
    /\ ostate = "idle"
    /\ extracted = None
    /\ oresult = None
    /\ conversation_histories = <<>>
    /\ local_history = None

InitRetry ==
    /\ \/ /\ func = "func"
          /\ max_retries \in 0..MaxRetriesBound
          /\ base_delay \in BaseDelays
          /\ max_delay \in MaxDelays
          /\ jitter \in BOOLEAN
       \/ /\ func = "invoke"
          /\ max_retries = InvokeMaxRetries
          /\ base_delay = InvokeBaseDelay
          /\ max_delay = InvokeMaxDelay
          /\ jitter = InvokeJitter
    /\ EnterWrapper
    /\ NoOperation

RetryReturns == \E v \in RetryValues : AttemptReturns(v) /\ UNCHANGED ovars
RetryClientError ==
    \E e \in ClientErrors, pct \in Pcts : AttemptClientError(e, pct) /\ UNCHANGED ovars
RetryClassified ==
    \E e \in ClassifiedErrors, pct \in Pcts : AttemptClassified(e, pct) /\ UNCHANGED ovars
RetryOther == \E e \in OtherErrors : AttemptOther(e) /\ UNCHANGED ovars

NextRetry == RetryReturns \/ RetryClientError \/ RetryClassified \/ RetryOther

SpecRetry == InitRetry /\ [][NextRetry]_vars

-----------------------------------------------------------------------------
(* Properties of the wrapper (checked under SpecRetry) *)

\* the failures the retry policy names, read off the raised exception itself
RaisedThrottling(o) ==
    /\ o.kind = "raise"
    /\ \/ o.val.cls = "BedrockThrottlingError"
       \/ /\ o.val.cls = "ClientError"
          /\ (ErrorCode(o.val) = "ThrottlingException" \/ StatusCode(o.val) = 429)
RaisedServer(o) ==
    /\ o.kind = "raise"
    /\ ~RaisedThrottling(o)
    /\ \/ o.val.cls = "BedrockServerError"
       \/ o.val.cls = "ClientError" /\ StatusCode(o.val) >= 500
RaisedRetryable(o) == RaisedThrottling(o) \/ RaisedServer(o)
RaisedNonRetryable(o) == o.kind = "raise" /\ ~RaisedRetryable(o)

Called == last_outcome # None

C2_AtMostNPlusOneCalls ==
    /\ calls <= max_retries + 1
    /\ func = "invoke" => converse_calls <= 4

\* C2 witness: invoke has made its fourth converse call and given up
C2_Witness ==
    /\ func = "invoke"
    /\ converse_calls = 4
    /\ wstate = "raised"

\* C3: a retryable failure with retries left is followed by a sleep and
\* another call; when a call returns a value after k retryable failures the
\* wrapper returns that value, after k + 1 calls, and calls nothing more.
C3_RetriesThenReturns ==
    /\ (Called /\ RaisedRetryable(last_outcome) /\ calls - 1 < max_retries) =>
          /\ wstate = "running"
          /\ attempt = calls
          /\ attempt <= max_retries
          /\ Len(sleeps) = calls
    /\ (Called /\ last_outcome.kind = "return") =>
          /\ wstate = "returned"
          /\ wresult = last_outcome.val
          /\ calls = Len(sleeps) + 1
          /\ calls = Len(outcomes)
          /\ \A i \in 1..(Len(outcomes) - 1) : outcomes[i] \in {"throttling", "server"}
    /\ wstate = "returned" => (Called /\ last_outcome.kind = "return")

\* C3 witness: two retryable failures, then a value on the third call
C3_Witness ==
    /\ outcomes = <<"throttling", "server", "returned">>
    /\ wstate = "returned"
    /\ calls = 3
    /\ max_retries = 2

\* C4: when every one of the max_retries + 1 attempts failed retryably, the
\* exception that leaves the wrapper is BedrockThrottlingError if the last
\* failure was throttling and BedrockServerError if it was a 5xx, never the
\* raw ClientError, whatever the earlier failures were.
C4_LastClassifiedRaised ==
    (/\ calls = max_retries + 1
     /\ \A i \in 1..Len(outcomes) : outcomes[i] \in {"throttling", "server"}) =>
        /\ wstate = "raised"
        /\ wresult.cls # "ClientError"
        /\ RaisedThrottling(last_outcome) => wresult.cls = "BedrockThrottlingError"
        /\ RaisedServer(last_outcome) => wresult.cls = "BedrockServerError"

\* C4 witness: a 5xx first, a throttling ClientError last
C4_Witness ==
    /\ max_retries >= 1
    /\ calls = max_retries + 1
    /\ outcomes[1] = "server"
    /\ wstate = "raised"
    /\ last_outcome.val.cls = "ClientError"
    /\ RaisedThrottling(last_outcome)
    /\ wresult.cls = "BedrockThrottlingError"

\* C5: without jitter the i-th sleep of an invocation (after attempt i - 1)
\* lasts min(base_delay * 2^(i-1), max_delay); the sleeps never decrease and
\* none is longer than max_delay.
C5_BackoffDelays ==
    ~jitter =>
        \A i \in 1..Len(sleeps) :
            /\ sleeps[i] = 100 * Min(base_delay * 2 ^ (i - 1), max_delay)
            /\ sleeps[i] <= 100 * max_delay
            /\ i > 1 => sleeps[i - 1] <= sleeps[i]

\* C5 witness: three sleeps without jitter, the last one capped at max_delay
C5_Witness ==
    /\ ~jitter
    /\ Len(sleeps) = 3
    /\ sleeps[3] = 100 * max_delay
    /\ sleeps[1] < sleeps[2]

-----------------------------------------------------------------------------
(* Conversation histories and letter comparison: schemas/letter.py and       *)
(* letter_generator.py                                                       *)

\* ConversationHistory()
NewHistory == [messages |-> <<>>, version_history |-> <<>>]

\* ConversationHistory.add_message
add_message(h, role, content) ==
    [h EXCEPT !.messages = Append(@, [role |-> role, content |-> content])]

\* a variant that skips a snapshot equal to the latest one
add_version_SkipSame(h, version, letter, changes_summary) ==
    IF h.version_history # <<>>
       /\ h.version_history[Len(h.version_history)].letter_snapshot = letter
    THEN h
    ELSE [h EXCEPT !.version_history =
             Append(@, [version |-> version, changes_summary |-> changes_summary,
                        letter_snapshot |-> letter])]

\* a variant in which the store numbers the entry itself, one above the
\* highest number it holds
add_version_Renumber(h, version, letter, changes_summary) ==
    LET vs == {h.version_history[i].version : i \in 1..Len(h.version_history)} \cup {0}
    IN  [h EXCEPT !.version_history =
            Append(@, [version |-> (CHOOSE v \in vs : \A w \in vs : w <= v) + 1,
                       changes_summary |-> changes_summary,
                       letter_snapshot |-> letter])]

\* ConversationHistory.add_version (the timestamp is left out)
add_version(h, version, letter, changes_summary) ==
    [h EXCEPT !.version_history =
        Append(@, [version |-> version, changes_summary |-> changes_summary,
                   letter_snapshot |-> letter])]

\* a variant that reads the number of the first entry
get_latest_version_First(h) ==
    IF h.version_history = <<>> THEN 0 ELSE h.version_history[1].version

\* ConversationHistory.get_latest_version
get_latest_version(h) ==
    IF h.version_history = <<>> THEN 0
    ELSE LET vs == {h.version_history[i].version : i \in 1..Len(h.version_history)}
         IN  CHOOSE v \in vs : \A w \in vs : w <= v

\* a variant that compares every section as its whole structured value
Compared_WholeSection(letter, sec) == letter[sec]

\* what _compare_letters compares for a section: the whole header, the
\* content of every other section
Compared(letter, sec) == IF sec = "header" THEN letter.header ELSE letter[sec].content

\* the subsequence of secs, from position i on, whose elements differ
RECURSIVE ModifiedFrom(_, _, _)
ModifiedFrom(original, modified, i) ==
    IF i > Len(LetterSections) THEN <<>>
    ELSE LET rest == ModifiedFrom(original, modified, i + 1)
             sec == LetterSections[i]
         IN  IF Compared(original, sec) # Compared(modified, sec)
             THEN <<sec>> \o rest ELSE rest

\* LetterGenerator._compare_letters
_compare_letters(original, modified) == ModifiedFrom(original, modified, 1)

\* s.value.replace("_", " ").title() for each LetterSection
SectionTitle ==
    [header |-> "Header", introduction |-> "Introduction", facts |-> "Facts",
     liability |-> "Liability", damages |-> "Damages", demand |-> "Demand",
     closing |-> "Closing"]

\* ", ".join(section_names)
RECURSIVE JoinTitles(_)
JoinTitles(secs) ==
    IF secs = <<>> THEN ""
    ELSE IF Len(secs) = 1 THEN SectionTitle[secs[1]]
    ELSE SectionTitle[secs[1]] \o ", " \o JoinTitles(Tail(secs))

\* feedback_instruction[:100]
First100(str) == SubSeq(str, 1, Min(100, Len(str)))

\* LetterGenerator._generate_change_summary
_generate_change_summary(sections_modified, feedback_instruction) ==
    IF sections_modified = <<>> THEN "No changes made (letter unchanged)"
    ELSE "Modified " \o ToString(Len(sections_modified))
         \o " section(s) based on feedback: '" \o First100(feedback_instruction)
         \o "...'. " \o "Sections changed: " \o JoinTitles(sections_modified) \o "."

\* get_refinement_prompt: the user message of a refinement, reduced to the
\* part that differs between calls
get_refinement_prompt(feedback) == "Refine the letter: " \o feedback.instruction

-----------------------------------------------------------------------------
(* The orchestrators: bedrock/client.py, document_analyzer.py,               *)
(* letter_generator.py and refinement/feedback_handler.py.  An operation     *)
(* starts, runs the decorated invoke (the wrapper above, with the arguments  *)
(* of the decorator on BedrockClient.invoke), and completes.                 *)

\* self.bedrock_client.config.model_id
model_id == "anthropic.claude"

\* the models used as tool schemas
Models == {"ExtractedData", "GeneratedLetter"}

\* arguments of the operations
DocTypes == {NoneStr, "", "police_report"}
DocumentIds == {"doc-1"}
CaseIds == {"CASE-42"}
LetterA == MakeLetter(LetterDictA)
LetterB == MakeLetter(LetterDictB)
Feedbacks ==
    {[instruction |-> "Describe the collision in more detail", target_section |-> "facts",
      priority |-> "high", context |-> NoneStr]}
Sections == {"facts"}
Tones == {"assertive"}

\* f"{case_id}_refinement"
SessionIdOf(case_id) == case_id \o "_refinement"
SessionIds == {SessionIdOf(c) : c \in CaseIds}

\* d[k] = v on a dict
Put(d, k, v) == [x \in DOMAIN d \cup {k} |-> IF x = k THEN v ELSE d[x]]

\* what client.converse returns to the orchestrators in this specification:
\* no content, text only, a toolUse without input, and a toolUse after a
\* text block with each payload; each with and without usage
ConverseResponses ==
    LET text == [text |-> "Here is the result."]
        bare == {<<>>, ResponseWith(<<text>>),
                 ResponseWith(<<[toolUse |-> [toolUseId |-> "tu_1", name |-> "tool"]]>>)}
                \cup {ResponseWith(<<text, [toolUse |-> [toolUseId |-> "tu_1", name |-> "tool",
                                                         input |-> p]]>>) : p \in ToolInputs}
    IN  bare \cup {WithUsage(r, u) : r \in bare, u \in Usages}

\* the ClientErrors client.converse raises in this specification: one
\* throttling, one 5xx and one that is neither
ConverseErrors ==
    {ClientError([Error |-> [Code |-> c], ResponseMetadata |-> [HTTPStatusCode |-> h]]) :
        <<c, h>> \in {<<"ThrottlingException", 429>>, <<"ValidationException", 503>>,
                      <<"ValidationException", 400>>}}

\* the decorated invoke is entered: the wrapper's locals, primed
BeginInvoke ==
    /\ attempt' = 0
    /\ calls' = 0
    /\ converse_calls' = 0
    /\ sleeps' = <<>>
    /\ last_exception' = None
    /\ wstate' = "running"
    /\ wresult' = None
    /\ outcomes' = <<>>
    /\ last_outcome' = None
    /\ UNCHANGED <<func, max_retries, base_delay, max_delay, jitter>>

\* an operation that calls invoke begins
Begin(o) ==
    /\ ostate = "idle"
    /\ op' = o
    /\ ostate' = "invoking"
    /\ extracted' = None
    /\ oresult' = None
    /\ BeginInvoke

\* invoke has returned or raised and the operation goes on from there
InvokeDone(name) ==
    /\ ostate = "invoking"
    /\ op.name = name
    /\ wstate \in {"returned", "raised"}

\* a variant that enters invoke again when the result does not validate
ExtractStep_Reinvoke(model) ==
    /\ extracted' = IF wstate = "returned" THEN extract_tool_result(wresult, model) ELSE None
    /\ IF wstate = "returned" /\ extract_tool_result(wresult, model).kind = "raise"
       THEN BeginInvoke
       ELSE UNCHANGED wvars

\* extract_tool_result(response, model) is called once invoke has returned;
\* invoke is not entered again
ExtractStep(model) ==
    /\ extracted' = IF wstate = "returned" THEN extract_tool_result(wresult, model) ELSE None
    /\ UNCHANGED wvars

\* "response = invoke(...); value = extract_tool_result(response, model)":
\* the value, or the exception either of the two raised
InvokeAndExtract(model) ==
    IF wstate = "raised" THEN Raised(wresult) ELSE extract_tool_result(wresult, model)

\* the operation ends, returning or raising
End(r) ==
    /\ oresult' = r
    /\ ostate' = "done"
    /\ UNCHANGED op

\* BedrockClient.invoke_with_tool
StartInvokeWithTool ==
    /\ \E m \in Models : Begin([name |-> "invoke_with_tool", model |-> m])
    /\ UNCHANGED <<conversation_histories, local_history>>

CompleteInvokeWithTool ==
    /\ InvokeDone("invoke_with_tool")
    /\ ExtractStep(op.model)
    /\ End(InvokeAndExtract(op.model))
    /\ UNCHANGED <<conversation_histories, local_history>>

\* response.get("usage", {}).get(key, 0)
UsageOf(response, key) == Get(Get(response, "usage", <<>>), key, 0)

\* document_analyzer.py lines 172-187: the result of a successful extraction
ExtractionSucceeded(o, data, response) ==
    [document_id |-> o.document_id, extracted_data |-> data,
     token_usage |-> [input_tokens |-> UsageOf(response, "input_tokens"),
                      output_tokens |-> UsageOf(response, "output_tokens")],
     model_id |-> model_id, success |-> TRUE, error_message |-> NoneStr]

\* a variant that reports no error message
ExtractionFailed_NoMessage(o, e) ==
    [document_id |-> o.document_id, extracted_data |-> PlaceholderData(o.document_type),
     token_usage |-> [input_tokens |-> 0, output_tokens |-> 0],
     model_id |-> model_id, success |-> FALSE, error_message |-> NoneStr]

\* document_analyzer.py lines 205-228: the result of a failed extraction
ExtractionFailed(o, e) ==
    [document_id |-> o.document_id, extracted_data |-> PlaceholderData(o.document_type),
     token_usage |-> [input_tokens |-> 0, output_tokens |-> 0],
     model_id |-> model_id, success |-> FALSE, error_message |-> e.msg]

\* DocumentAnalyzer.analyze_document
StartAnalyzeDocument ==
    /\ \E d \in DocumentIds, t \in DocTypes :
          Begin([name |-> "analyze_document", document_id |-> d, document_type |-> t])
    /\ UNCHANGED <<conversation_histories, local_history>>

CompleteAnalyzeDocument ==
    /\ InvokeDone("analyze_document")
    /\ ExtractStep("ExtractedData")
    /\ LET r == InvokeAndExtract("ExtractedData")
       IN  End(Returned(IF r.kind = "return"
                        THEN ExtractionSucceeded(op, r.val, wresult)
                        ELSE ExtractionFailed(op, r.val)))
    /\ UNCHANGED <<conversation_histories, local_history>>

\* letter_generator.py lines 122-143: the result of a successful generation
GenerationSucceeded(o, letter, response) ==
    [case_id |-> o.case_id, letter |-> letter,
     token_usage |-> [input_tokens |-> UsageOf(response, "inputTokens"),
                      output_tokens |-> UsageOf(response, "outputTokens")],
     model_id |-> model_id, version |-> 1, success |-> TRUE, error_message |-> NoneStr]

\* a variant that numbers the failed generation as version 1
GenerationFailed_Version1(o, e) ==
    [case_id |-> o.case_id, letter |-> EmptyLetter,
     token_usage |-> [input_tokens |-> 0, output_tokens |-> 0],
     model_id |-> model_id, version |-> 1, success |-> FALSE, error_message |-> e.msg]

\* letter_generator.py lines 159-203: the result of a failed generation
GenerationFailed(o, e) ==
    [case_id |-> o.case_id, letter |-> EmptyLetter,
     token_usage |-> [input_tokens |-> 0, output_tokens |-> 0],
     model_id |-> model_id, version |-> 0, success |-> FALSE, error_message |-> e.msg]

\* LetterGenerator.generate_letter
StartGenerateLetter ==
    /\ \E c \in CaseIds : Begin([name |-> "generate_letter", case_id |-> c])
    /\ UNCHANGED <<conversation_histories, local_history>>

CompleteGenerateLetter ==
    /\ InvokeDone("generate_letter")
    /\ ExtractStep("GeneratedLetter")
    /\ LET r == InvokeAndExtract("GeneratedLetter")
       IN  End(Returned(IF r.kind = "return"
                        THEN GenerationSucceeded(op, r.val, wresult)
                        ELSE GenerationFailed(op, r.val)))
    /\ UNCHANGED <<conversation_histories, local_history>>

\* a variant that adds no assistant message when no section was modified
RefineFromInvoke_QuietWhenUnchanged(o, h) ==
    LET r == InvokeAndExtract("GeneratedLetter")
    IN  IF r.kind = "raise" THEN [result |-> r, history |-> h]
        ELSE LET sections_modified == _compare_letters(o.current_letter, r.val)
                 changes_summary ==
                     _generate_change_summary(sections_modified, o.feedback.instruction)
                 assistant_message == "Letter refined. Changes: " \o changes_summary
             IN  [result  |-> Returned([refined_letter |-> r.val,
                                        changes_summary |-> changes_summary,
                                        sections_modified |-> sections_modified]),
                  history |-> add_version(IF sections_modified = <<>> THEN h
                                          ELSE add_message(h, "assistant", assistant_message),
                                          o.current_version + 1, r.val, changes_summary)]

\* letter_generator.py lines 263-307: refine_letter once invoke and
\* extract_tool_result have given r (the letter, or the exception either
\* raised), for the operation o and its conversation history h; gives what
\* the call does ("return" with the RefinementResult, or "raise") and the
\* history it leaves
RefineWith(o, h, r) ==
    IF r.kind = "raise" THEN [result |-> r, history |-> h]
    ELSE LET sections_modified == _compare_letters(o.current_letter, r.val)
             changes_summary ==
                 _generate_change_summary(sections_modified, o.feedback.instruction)
             assistant_message == "Letter refined. Changes: " \o changes_summary
         IN  [result  |-> Returned([refined_letter |-> r.val,
                                    changes_summary |-> changes_summary,
                                    sections_modified |-> sections_modified]),
              history |-> add_version(add_message(h, "assistant", assistant_message),
                                      o.current_version + 1, r.val, changes_summary)]

\* the same, from the call of invoke on
RefineFromInvoke(o, h) == RefineWith(o, h, InvokeAndExtract("GeneratedLetter"))

\* LetterGenerator.refine_letter, called without a conversation history
StartRefineLetter ==
    /\ \E cur \in {LetterA, LetterB}, fb \in Feedbacks :
          /\ Begin([name |-> "refine_letter", current_letter |-> cur, feedback |-> fb,
                    current_version |-> 1])
          /\ local_history' = add_message(NewHistory, "user", get_refinement_prompt(fb))
    /\ UNCHANGED conversation_histories

CompleteRefineLetter ==
    /\ InvokeDone("refine_letter")
    /\ ExtractStep("GeneratedLetter")
    /\ LET out == RefineFromInvoke(op, local_history)
       IN  /\ End(out.result)
           /\ local_history' = out.history
    /\ UNCHANGED conversation_histories

\* LetterGenerator.regenerate_section
StartRegenerateSection ==
    /\ \E cur \in {LetterA}, sec \in Sections :
          Begin([name |-> "regenerate_section", current_letter |-> cur, section |-> sec])
    /\ UNCHANGED <<conversation_histories, local_history>>

CompleteRegenerateSection ==
    /\ InvokeDone("regenerate_section")
    /\ ExtractStep("GeneratedLetter")
    /\ End(InvokeAndExtract("GeneratedLetter"))
    /\ UNCHANGED <<conversation_histories, local_history>>

\* LetterGenerator.adjust_tone
StartAdjustTone ==
    /\ \E cur \in {LetterA}, tone \in Tones :
          Begin([name |-> "adjust_tone", current_letter |-> cur, new_tone |-> tone])
    /\ UNCHANGED <<conversation_histories, local_history>>

CompleteAdjustTone ==
    /\ InvokeDone("adjust_tone")
    /\ ExtractStep("GeneratedLetter")
    /\ End(InvokeAndExtract("GeneratedLetter"))
    /\ UNCHANGED <<conversation_histories, local_history>>

\* a variant that keeps the history of a session that exists already
StartRefinementSession_KeepsExisting ==
    /\ ostate = "idle"
    /\ \E c \in CaseIds, letter \in {LetterA, LetterB} :
          /\ op' = [name |-> "start_refinement_session", case_id |-> c,
                    initial_letter |-> letter,
                    previous |-> Get(conversation_histories, SessionIdOf(c), None)]
          /\ conversation_histories' =
                 Put(conversation_histories, SessionIdOf(c),
                     add_version(Get(conversation_histories, SessionIdOf(c), NewHistory),
                                 1, letter, "Initial generation"))
          /\ oresult' = Returned(SessionIdOf(c))
    /\ extracted' = None
    /\ UNCHANGED <<wvars, ostate, local_history>>

\* FeedbackHandler.start_refinement_session.  The call makes no external
\* call and returns at once: the handler is idle again, op and oresult keep
\* the call and what it returned, op.previous the history that the
\* assignment of line 75 replaced (None for a new session).
StartRefinementSessionFor(c, letter) ==
    /\ ostate = "idle"
    /\ op' = [name |-> "start_refinement_session", case_id |-> c,
              initial_letter |-> letter,
              previous |-> Get(conversation_histories, SessionIdOf(c), None)]
    /\ conversation_histories' =
           Put(conversation_histories, SessionIdOf(c),
               add_version(NewHistory, 1, letter, "Initial generation"))
    /\ oresult' = Returned(SessionIdOf(c))
    /\ extracted' = None
    /\ UNCHANGED <<wvars, ostate, local_history>>

\* start_refinement_session for the cases of CaseIds
StartRefinementSession ==
    \E c \in CaseIds, letter \in {LetterA, LetterB} : StartRefinementSessionFor(c, letter)

\* FeedbackHandler.apply_feedback, lines 106-109: the session is not known
ApplyFeedbackUnknownSession ==
    /\ ostate = "idle"
    /\ \E sid \in SessionIds, cur \in {LetterA, LetterB}, fb \in Feedbacks :
          /\ sid \notin DOMAIN conversation_histories
          /\ op' = [name |-> "apply_feedback", session_id |-> sid, current_letter |-> cur,
                    feedback |-> fb]
          /\ oresult' = Raised(ValueError("Refinement session not found: " \o sid))
    /\ ostate' = "done"
    /\ extracted' = None
    /\ UNCHANGED <<wvars, conversation_histories, local_history>>

\* FeedbackHandler.apply_feedback, lines 111-133: refine_letter is entered
\* with the session's history and its latest version
StartApplyFeedback ==
    /\ \E sid \in SessionIds, cur \in {LetterA, LetterB}, fb \in Feedbacks :
          /\ sid \in DOMAIN conversation_histories
          /\ Begin([name |-> "apply_feedback", session_id |-> sid, current_letter |-> cur,
                    feedback |-> fb,
                    current_version |-> get_latest_version(conversation_histories[sid])])
          /\ conversation_histories' =
                 [conversation_histories EXCEPT
                     ![sid] = add_message(@, "user", get_refinement_prompt(fb))]
    /\ UNCHANGED local_history

\* a variant that takes the prompt back when the refinement raises
CompleteApplyFeedback_TakesBack ==
    /\ InvokeDone("apply_feedback")
    /\ ExtractStep("GeneratedLetter")
    /\ LET h == conversation_histories[op.session_id]
           out == RefineFromInvoke(op, h)
       IN  /\ End(out.result)
           /\ conversation_histories' =
                  [conversation_histories EXCEPT
                      ![op.session_id] =
                          IF out.result.kind = "raise"
                          THEN [h EXCEPT !.messages = SubSeq(@, 1, Len(@) - 1)]
                          ELSE out.history]
    /\ UNCHANGED local_history

CompleteApplyFeedback ==
    /\ InvokeDone("apply_feedback")
    /\ ExtractStep("GeneratedLetter")
    /\ LET out == RefineFromInvoke(op, conversation_histories[op.session_id])
       IN  /\ End(out.result)
           /\ conversation_histories' =
                  [conversation_histories EXCEPT ![op.session_id] = out.history]
    /\ UNCHANGED local_history

-----------------------------------------------------------------------------
(* PDF ingestion: document_analyzer.py *)

\* sep.join(parts)
RECURSIVE Join(_, _)
Join(parts, sep) ==
    IF parts = <<>> THEN ""
    ELSE IF Len(parts) = 1 THEN parts[1]
    ELSE parts[1] \o sep \o Join(Tail(parts), sep)

\* what page.extract_text() does for one page: it returns text, returns the
\* empty string, or raises
PageOutcomes ==
    {Returned("Officer's report."), Returned(""), Raised([cls |-> "PdfReadError", msg |-> "bad page"])}

\* a PDF file is the sequence of its pages
Pdfs == SeqsUpTo(PageOutcomes, MaxPages)

\* lines 90-101: text_parts, from page n on
RECURSIVE TextParts(_, _)
TextParts(pages, n) ==
    IF n > Len(pages) THEN <<>>
    ELSE LET header == "--- Page " \o ToString(n) \o " ---\n"
             part == IF pages[n].kind = "raise"
                     THEN <<header \o "[Text extraction failed]\n">>
                     ELSE IF pages[n].val # "" THEN <<header \o pages[n].val \o "\n">>
                     ELSE <<>>
         IN  part \o TextParts(pages, n + 1)

\* DocumentAnalyzer._extract_pdf_text
_extract_pdf_text(pages) ==
    IF TextParts(pages, 1) = <<>>
    THEN Raised(ValueError("No text could be extracted from PDF"))
    ELSE Returned(Join(TextParts(pages, 1), "\n"))

\* DocumentAnalyzer.extract_text_from_pdf: any exception becomes a ValueError
extract_text_from_pdf(pdf_file) ==
    LET r == _extract_pdf_text(pdf_file)
    IN  IF r.kind = "raise"
        THEN Raised(ValueError("PDF extraction failed: " \o r.val.msg))
        ELSE r

\* DocumentAnalyzer.analyze_pdf_document: the text is extracted and
\* analyze_document is entered with it, unless the extraction raised
AnalyzePdfDocument ==
    /\ ostate = "idle"
    /\ \E d \in DocumentIds, pdf \in Pdfs :
          LET r == extract_text_from_pdf(pdf)
          IN  IF r.kind = "raise"
              THEN /\ op' = [name |-> "analyze_pdf_document", document_id |-> d,
                             pdf_file |-> pdf]
                   /\ oresult' = r
                   /\ ostate' = "done"
                   /\ extracted' = None
                   /\ UNCHANGED wvars
              ELSE Begin([name |-> "analyze_document", document_id |-> d,
                          document_type |-> "police_report", pdf_file |-> pdf,
                          document_text |-> r.val])
    /\ UNCHANGED <<conversation_histories, local_history>>

-----------------------------------------------------------------------------
(* Letter checks: letter_generator.py *)

\* a string of n copies of c
RECURSIVE Rep(_, _)
Rep(c, n) == IF n = 0 THEN "" ELSE c \o Rep(c, n - 1)

\* str.strip(): leading and trailing whitespace is removed
RECURSIVE Strip(_)
Strip(s) ==
    LET ws == {" ", "\n", "\t"}
    IN  IF s # "" /\ SubSeq(s, 1, 1) \in ws THEN Strip(SubSeq(s, 2, Len(s)))
        ELSE IF s # "" /\ SubSeq(s, Len(s), Len(s)) \in ws
             THEN Strip(SubSeq(s, 1, Len(s) - 1))
        ELSE s

\* a variant whose length thresholds are met by the threshold itself
validate_letter_completeness_AtLeast(letter) ==
    LET checks ==
            [has_header |-> letter.header.recipient_name # "" /\ letter.header.subject_line # "",
             has_introduction |-> Len(Strip(letter.introduction.content)) >= 50,
             has_facts |-> Len(Strip(letter.facts.content)) >= 100,
             has_liability |-> Len(Strip(letter.liability.content)) >= 100,
             has_damages |-> Len(Strip(letter.damages.content)) >= 50
                             /\ letter.damages.total_damages > 0,
             has_demand |-> Len(Strip(letter.demand.content)) >= 50
                            /\ letter.demand.demand_amount > 0,
             has_closing |-> letter.closing.content # "" /\ letter.closing.signature_block # ""]
    IN  [k \in DOMAIN checks \cup {"is_complete"} |->
            IF k = "is_complete" THEN \A c \in DOMAIN checks : checks[c] ELSE checks[k]]

\* LetterGenerator.validate_letter_completeness
validate_letter_completeness(letter) ==
    LET checks ==
            [has_header |-> letter.header.recipient_name # "" /\ letter.header.subject_line # "",
             has_introduction |-> Len(Strip(letter.introduction.content)) > 50,
             has_facts |-> Len(Strip(letter.facts.content)) > 100,
             has_liability |-> Len(Strip(letter.liability.content)) > 100,
             has_damages |-> Len(Strip(letter.damages.content)) > 50
                             /\ letter.damages.total_damages > 0,
             has_demand |-> Len(Strip(letter.demand.content)) > 50
                            /\ letter.demand.demand_amount > 0,
             has_closing |-> letter.closing.content # "" /\ letter.closing.signature_block # ""]
    IN  [k \in DOMAIN checks \cup {"is_complete"} |->
            IF k = "is_complete" THEN \A c \in DOMAIN checks : checks[c] ELSE checks[k]]

\* a letter that passes every check, each content one character above its
\* threshold
CompleteLetter ==
    [LetterA EXCEPT !.introduction.content = Rep("i", 51), !.facts.content = Rep("f", 101),
                    !.liability.content = Rep("l", 101), !.damages.content = Rep("d", 51),
                    !.demand.content = Rep("m", 51)]

\* the changes made to a letter to obtain the letters given to the checks
Edits == 1..17
Edit(l, k) ==
    CASE k = 1  -> [l EXCEPT !.header.recipient_name = ""]
      [] k = 2  -> [l EXCEPT !.header.subject_line = ""]
      [] k = 3  -> [l EXCEPT !.header.date = "February 1, 2024"]
      [] k = 4  -> [l EXCEPT !.introduction.content = Rep("i", 50)]
      [] k = 5  -> [l EXCEPT !.introduction.content = Rep("i", 45) \o Rep(" ", 10)]
      [] k = 6  -> [l EXCEPT !.introduction.client_name = "Jane Roe"]
      [] k = 7  -> [l EXCEPT !.facts.content = Rep("f", 100)]
      [] k = 8  -> [l EXCEPT !.facts.content = "\n" \o Rep("f", 99) \o "\t "]
      [] k = 9  -> [l EXCEPT !.liability.content = Rep("l", 100)]
      [] k = 10 -> [l EXCEPT !.damages.content = Rep("d", 50)]
      [] k = 11 -> [l EXCEPT !.damages.total_damages = 0]
      [] k = 12 -> [l EXCEPT !.demand.content = Rep("m", 50)]
      [] k = 13 -> [l EXCEPT !.demand.demand_amount = 0]
      [] k = 14 -> [l EXCEPT !.closing.content = ""]
      [] k = 15 -> [l EXCEPT !.closing.content = " "]
      [] k = 16 -> [l EXCEPT !.closing.signature_block = ""]
      [] k = 17 -> [l EXCEPT !.liability.legal_theories = <<"negligence">>]

\* CompleteLetter and EmptyLetter with up to n of these changes
RECURSIVE LetterVariants(_)
LetterVariants(n) ==
    IF n = 0 THEN {CompleteLetter, EmptyLetter}
    ELSE LetterVariants(n - 1) \cup {Edit(l, k) : l \in LetterVariants(n - 1), k \in Edits}

\* LetterGenerator.validate_letter_completeness is called
ValidateLetterCompleteness ==
    /\ ostate = "idle"
    /\ \E letter \in LetterVariants(MaxEdits) :
          /\ op' = [name |-> "validate_letter_completeness", letter |-> letter]
          /\ oresult' = Returned(validate_letter_completeness(letter))
    /\ ostate' = "done"
    /\ extracted' = None
    /\ UNCHANGED <<wvars, conversation_histories, local_history>>

\* LetterGenerator._compare_letters is called
CompareLetters ==
    /\ ostate = "idle"
    /\ \E original \in LetterVariants(1), modified \in LetterVariants(1) :
          /\ op' = [name |-> "_compare_letters", original |-> original, modified |-> modified]
          /\ oresult' = Returned(_compare_letters(original, modified))
    /\ ostate' = "done"
    /\ extracted' = None
    /\ UNCHANGED <<wvars, conversation_histories, local_history>>

-----------------------------------------------------------------------------
(* Batches of feedback: refinement/feedback_handler.py *)

\* the feedback items of a batch: one of each priority and a second one of
\* medium priority, all with the instruction of Feedbacks
BatchFeedbacks ==
    {[f EXCEPT !.priority = pc[1], !.context = pc[2]] :
        f \in Feedbacks,
        pc \in {<<"high", NoneStr>>, <<"medium", NoneStr>>, <<"low", NoneStr>>,
                <<"medium", "second reading">>}}

\* feedback_list: up to MaxBatch distinct items
FeedbackLists ==
    {l \in SeqsUpTo(BatchFeedbacks, MaxBatch) :
        \A i, j \in 1..Len(l) : l[i] = l[j] => i = j}

\* a variant that leaves the list in its input order
sorted_feedback_Unsorted(feedback_list) == feedback_list

\* lines 176-180: sorted(feedback_list, key=...), a stable sort on the three
\* values of the key
sorted_feedback(feedback_list) ==
    LET priority_order == [high |-> 0, medium |-> 1, low |-> 2]
        key(f) == Get(priority_order, f.priority, 1)
        WithKey(k) == SelectSeq(feedback_list, LAMBDA f : key(f) = k)
    IN  WithKey(0) \o WithKey(1) \o WithKey(2)

\* list(all_sections_modified): the elements of a set in some order
ListsOf(S) == {l \in [1..Cardinality(S) -> S] : \A x \in S : \E i \in DOMAIN l : l[i] = x}

\* a variant that keeps the caller's letter as the working letter
Accumulate_SameLetter(o, result) ==
    [o EXCEPT !.all_sections_modified =
                  @ \cup {result.sections_modified[i] : i \in 1..Len(result.sections_modified)},
              !.change_summaries = Append(@, result.changes_summary)]

\* lines 209-211: working_letter, all_sections_modified and change_summaries
\* after a step that returned result
Accumulate(o, result) ==
    [o EXCEPT !.current_letter = result.refined_letter,
              !.all_sections_modified =
                  @ \cup {result.sections_modified[i] : i \in 1..Len(result.sections_modified)},
              !.change_summaries = Append(@, result.changes_summary)]

\* a variant that looks up the session before it looks at the list
ApplyBatchRejected_SessionFirst ==
    /\ ostate = "idle"
    /\ \E sid \in SessionIds, cur \in {LetterA}, l \in FeedbackLists :
          /\ l = <<>> \/ sid \notin DOMAIN conversation_histories
          /\ op' = [name |-> "apply_batch_feedback", session_id |-> sid,
                    letter |-> cur, feedback_list |-> l]
          /\ oresult' = IF sid \notin DOMAIN conversation_histories
                        THEN Raised(ValueError("Refinement session not found: " \o sid))
                        ELSE Raised(ValueError("Feedback list is empty"))
    /\ ostate' = "done"
    /\ extracted' = None
    /\ UNCHANGED <<wvars, conversation_histories, local_history>>

\* FeedbackHandler.apply_batch_feedback raising before any refinement: the
\* list is empty (lines 172-173), or the first apply_feedback does not find
\* the session (lines 106-109)
ApplyBatchRejected ==
    /\ ostate = "idle"
    /\ \E sid \in SessionIds, cur \in {LetterA}, l \in FeedbackLists :
          /\ l = <<>> \/ sid \notin DOMAIN conversation_histories
          /\ op' = [name |-> "apply_batch_feedback", session_id |-> sid,
                    letter |-> cur, feedback_list |-> l]
          /\ oresult' = IF l = <<>>
                        THEN Raised(ValueError("Feedback list is empty"))
                        ELSE Raised(ValueError("Refinement session not found: " \o sid))
    /\ ostate' = "done"
    /\ extracted' = None
    /\ UNCHANGED <<wvars, conversation_histories, local_history>>

\* FeedbackHandler.apply_batch_feedback, lines 172-207: the list is sorted
\* and apply_feedback is entered for its first item.  op.applied lists the
\* feedback passed to apply_feedback so far, in call order.  A batch is
\* started only where the transcript has room for all its messages.
StartApplyBatch ==
    /\ \E sid \in SessionIds, cur \in {LetterA}, l \in FeedbackLists :
          /\ l # <<>>
          /\ sid \in DOMAIN conversation_histories
          /\ Len(conversation_histories[sid].messages) + 2 * Len(l) <= MaxMessages
          /\ LET first == sorted_feedback(l)[1]
             IN  /\ Begin([name |-> "apply_batch_feedback", session_id |-> sid,
                           letter |-> cur, feedback_list |-> l,
                           sorted |-> sorted_feedback(l), i |-> 1,
                           current_letter |-> cur, feedback |-> first,
                           current_version |->
                               get_latest_version(conversation_histories[sid]),
                           all_sections_modified |-> {}, change_summaries |-> <<>>,
                           applied |-> <<first>>])
                 /\ conversation_histories' =
                        [conversation_histories EXCEPT
                            ![sid] = add_message(@, "user", get_refinement_prompt(first))]
    /\ UNCHANGED local_history

\* a variant that removes the versions of the earlier steps when a step
\* raises
CompleteBatchStep_Undoes ==
    /\ InvokeDone("apply_batch_feedback")
    /\ extracted' = extract_tool_result(wresult, "GeneratedLetter")
    /\ LET sid == op.session_id
           out == RefineFromInvoke(op, conversation_histories[sid])
       IN  IF out.result.kind = "raise"
           THEN /\ End(out.result)
                /\ conversation_histories' =
                       [conversation_histories EXCEPT
                           ![sid].version_history =
                               SubSeq(@, 1, Len(@) - Len(op.change_summaries))]
                /\ UNCHANGED wvars
           ELSE LET acc == Accumulate(op, out.result.val)
                IN  IF op.i < Len(op.sorted)
                    THEN LET next == op.sorted[op.i + 1]
                         IN  /\ op' = [acc EXCEPT !.i = @ + 1, !.feedback = next,
                                           !.current_version = get_latest_version(out.history),
                                           !.applied = Append(@, next)]
                             /\ conversation_histories' =
                                    [conversation_histories EXCEPT
                                        ![sid] = add_message(out.history, "user",
                                                             get_refinement_prompt(next))]
                             /\ BeginInvoke
                             /\ UNCHANGED <<ostate, oresult>>
                    ELSE /\ \E sections \in ListsOf(acc.all_sections_modified) :
                                oresult' = Returned([refined_letter |-> acc.current_letter,
                                                     changes_summary |->
                                                         Join(acc.change_summaries, " | "),
                                                     sections_modified |-> sections])
                         /\ ostate' = "done"
                         /\ op' = acc
                         /\ conversation_histories' =
                                [conversation_histories EXCEPT ![sid] = out.history]
                         /\ UNCHANGED wvars
    /\ UNCHANGED local_history

\* FeedbackHandler.apply_batch_feedback, lines 195-228: the apply_feedback of
\* item i ends.  If it raised, so does the batch; if it returned and items
\* are left, apply_feedback is entered for the next one; otherwise the
\* combined result is returned.
CompleteBatchStep ==
    /\ InvokeDone("apply_batch_feedback")
    /\ extracted' = extract_tool_result(wresult, "GeneratedLetter")
    /\ LET sid == op.session_id
           out == RefineFromInvoke(op, conversation_histories[sid])
       IN  IF out.result.kind = "raise"
           THEN /\ End(out.result)
                /\ conversation_histories' =
                       [conversation_histories EXCEPT ![sid] = out.history]
                /\ UNCHANGED wvars
           ELSE LET acc == Accumulate(op, out.result.val)
                IN  IF op.i < Len(op.sorted)
                    THEN LET next == op.sorted[op.i + 1]
                         IN  /\ op' = [acc EXCEPT !.i = @ + 1, !.feedback = next,
                                           !.current_version = get_latest_version(out.history),
                                           !.applied = Append(@, next)]
                             /\ conversation_histories' =
                                    [conversation_histories EXCEPT
                                        ![sid] = add_message(out.history, "user",
                                                             get_refinement_prompt(next))]
                             /\ BeginInvoke
                             /\ UNCHANGED <<ostate, oresult>>
                    ELSE /\ \E sections \in ListsOf(acc.all_sections_modified) :
                                oresult' = Returned([refined_letter |-> acc.current_letter,
                                                     changes_summary |->
                                                         Join(acc.change_summaries, " | "),
                                                     sections_modified |-> sections])
                         /\ ostate' = "done"
                         /\ op' = acc
                         /\ conversation_histories' =
                                [conversation_histories EXCEPT ![sid] = out.history]
                         /\ UNCHANGED wvars
    /\ UNCHANGED local_history

-----------------------------------------------------------------------------
(* Versions of a session: refinement/feedback_handler.py *)

\* the version numbers asked for
TargetVersions == 0..MaxVersion

\* a variant that returns the latest letter when the version is missing
rollback_to_version_Latest(histories, session_id, target_version) ==
    IF session_id \notin DOMAIN histories
    THEN Raised(ValueError("Refinement session not found: " \o session_id))
    ELSE LET vh == histories[session_id].version_history
             found == {i \in 1..Len(vh) : vh[i].version = target_version}
         IN  IF found = {}
             THEN Returned(MakeLetter(vh[Len(vh)].letter_snapshot))
             ELSE Returned(MakeLetter(vh[CHOOSE i \in found : \A j \in found : i <= j]
                                         .letter_snapshot))

\* FeedbackHandler.rollback_to_version on the store histories: the letter or
\* the exception
rollback_to_version(histories, session_id, target_version) ==
    IF session_id \notin DOMAIN histories
    THEN Raised(ValueError("Refinement session not found: " \o session_id))
    ELSE LET vh == histories[session_id].version_history
             found == {i \in 1..Len(vh) : vh[i].version = target_version}
         IN  IF found = {}
             THEN Raised(ValueError("Version " \o ToString(target_version)
                                    \o " not found in session " \o session_id))
             ELSE Returned(MakeLetter(vh[CHOOSE i \in found : \A j \in found : i <= j]
                                         .letter_snapshot))

\* FeedbackHandler.compare_versions on the store histories (the timestamps
\* are left out)
compare_versions(histories, session_id, version_a, version_b) ==
    LET letter_a == rollback_to_version(histories, session_id, version_a)
        letter_b == rollback_to_version(histories, session_id, version_b)
    IN  IF letter_a.kind = "raise" THEN letter_a
        ELSE IF letter_b.kind = "raise" THEN letter_b
        ELSE LET modified_sections == _compare_letters(letter_a.val, letter_b.val)
                 vh == histories[session_id].version_history
                 entry(v) == vh[CHOOSE i \in 1..Len(vh) :
                                   /\ vh[i].version = v
                                   /\ \A j \in 1..(i - 1) : vh[j].version # v]
             IN  Returned([version_a |-> version_a, version_b |-> version_b,
                           changes_summary_a |-> entry(version_a).changes_summary,
                           changes_summary_b |-> entry(version_b).changes_summary,
                           modified_sections |-> modified_sections,
                           section_count_modified |-> Len(modified_sections)])

\* a variant that drops the entries after the one rolled back to
RollbackToVersion_Truncates ==
    /\ ostate = "idle"
    /\ \E sid \in SessionIds, v \in TargetVersions :
          /\ op' = [name |-> "rollback_to_version", session_id |-> sid,
                    target_version |-> v]
          /\ oresult' = rollback_to_version(conversation_histories, sid, v)
          /\ conversation_histories' =
                 IF rollback_to_version(conversation_histories, sid, v).kind = "raise"
                 THEN conversation_histories
                 ELSE [conversation_histories EXCEPT
                          ![sid].version_history =
                              SelectSeq(@, LAMBDA entry : entry.version <= v)]
    /\ ostate' = "done"
    /\ extracted' = None
    /\ UNCHANGED <<wvars, local_history>>

\* FeedbackHandler.rollback_to_version
RollbackToVersion ==
    /\ ostate = "idle"
    /\ \E sid \in SessionIds, v \in TargetVersions :
          /\ op' = [name |-> "rollback_to_version", session_id |-> sid,
                    target_version |-> v]
          /\ oresult' = rollback_to_version(conversation_histories, sid, v)
    /\ ostate' = "done"
    /\ extracted' = None
    /\ UNCHANGED <<wvars, conversation_histories, local_history>>

\* FeedbackHandler.compare_versions
CompareVersions ==
    /\ ostate = "idle"
    /\ \E sid \in SessionIds, a, b \in TargetVersions :
          /\ op' = [name |-> "compare_versions", session_id |-> sid,
                    version_a |-> a, version_b |-> b]
          /\ oresult' = compare_versions(conversation_histories, sid, a, b)
    /\ ostate' = "done"
    /\ extracted' = None
    /\ UNCHANGED <<wvars, conversation_histories, local_history>>

-----------------------------------------------------------------------------
(* The session store: refinement/feedback_handler.py *)

\* a second case, whose session is started and cleared but never refined
SecondCaseId == "CASE-7"

\* the session ids that the store is asked about
StoreIds == SessionIds \cup {SessionIdOf(SecondCaseId)}

\* an operation that makes no external call, asked about session sid, ends
\* with result
Answer(name, sid, result) ==
    /\ ostate = "idle"
    /\ op' = [name |-> name, session_id |-> sid,
              existed |-> sid \in DOMAIN conversation_histories]
    /\ oresult' = result
    /\ ostate' = "done"
    /\ extracted' = None
    /\ UNCHANGED <<wvars, local_history>>

\* a variant that empties the store
ClearSession_All ==
    \E sid \in StoreIds :
        /\ Answer("clear_session", sid, Returned(None))
        /\ conversation_histories' =
               IF sid \in DOMAIN conversation_histories THEN <<>> ELSE conversation_histories

\* FeedbackHandler.clear_session
ClearSession ==
    \E sid \in StoreIds :
        /\ Answer("clear_session", sid, Returned(None))
        /\ conversation_histories' =
               [x \in DOMAIN conversation_histories \ {sid} |-> conversation_histories[x]]

\* FeedbackHandler.get_version_history
GetVersionHistory ==
    /\ \E sid \in StoreIds :
          Answer("get_version_history", sid,
                 IF sid \notin DOMAIN conversation_histories
                 THEN Raised(ValueError("Refinement session not found: " \o sid))
                 ELSE Returned(conversation_histories[sid].version_history))
    /\ UNCHANGED conversation_histories

\* FeedbackHandler.get_conversation_context
GetConversationContext ==
    /\ \E sid \in StoreIds :
          Answer("get_conversation_context", sid,
                 IF sid \notin DOMAIN conversation_histories
                 THEN Raised(ValueError("Refinement session not found: " \o sid))
                 ELSE Returned(conversation_histories[sid].messages))
    /\ UNCHANGED conversation_histories

\* FeedbackHandler.get_refinement_stats
GetRefinementStats ==
    /\ \E sid \in StoreIds :
          Answer("get_refinement_stats", sid,
                 IF sid \notin DOMAIN conversation_histories
                 THEN Raised(ValueError("Refinement session not found: " \o sid))
                 ELSE LET h == conversation_histories[sid]
                      IN  Returned([session_id |-> sid,
                                    total_versions |-> Len(h.version_history),
                                    current_version |-> get_latest_version(h),
                                    total_messages |-> Len(h.messages),
                                    refinement_count |-> Len(h.messages) \div 2]))
    /\ UNCHANGED conversation_histories

-----------------------------------------------------------------------------
(* Damages of an extraction: schemas/extraction.py *)

\* Damage entries; one whose amount is None is the record without the
\* amount field.  Amounts are whole numbers here.
DamageEntries ==
    {[damage_type |-> "medical", description |-> "Emergency room visit"]}
    \cup {[damage_type |-> "medical", description |-> "Emergency room visit", amount |-> a] :
             a \in {0, 50, 100}}

DamageLists == SeqsUpTo(DamageEntries, MaxDamages)

\* a variant that stops at the first entry without an amount
RECURSIVE calculate_total_damages_UntilNone(_)
calculate_total_damages_UntilNone(damages) ==
    IF damages = <<>> \/ "amount" \notin DOMAIN Head(damages) THEN 0
    ELSE Head(damages).amount + calculate_total_damages_UntilNone(Tail(damages))

\* ExtractedData.calculate_total_damages
RECURSIVE calculate_total_damages(_)
calculate_total_damages(damages) ==
    IF damages = <<>> THEN 0
    ELSE LET damage == damages[Len(damages)]
             total == calculate_total_damages(SubSeq(damages, 1, Len(damages) - 1))
         IN  IF "amount" \in DOMAIN damage THEN total + damage.amount ELSE total

CalculateTotalDamages ==
    /\ ostate = "idle"
    /\ \E damages \in DamageLists :
          /\ op' = [name |-> "calculate_total_damages", damages |-> damages]
          /\ oresult' = Returned(calculate_total_damages(damages))
    /\ ostate' = "done"
    /\ extracted' = None
    /\ UNCHANGED <<wvars, conversation_histories, local_history>>

-----------------------------------------------------------------------------
(* The Lambda routes: lambda_handler.py.  A request body is the set of its  *)
(* keys (the values validate, except template_variables where               *)
(* template_ok is FALSE); a response is its statusCode and its body before  *)
(* json.dumps.                                                              *)

GenerateRequired == {"case_id", "extracted_data", "template_variables"}
RefineRequired == {"letter_id", "current_letter", "feedback", "firm_id"}

\* the bodies sent to /generate: the documented fields, with and without a
\* letter_id, and one without template_variables
GenerateBodies ==
    {GenerateRequired \cup {"firm_id"}, GenerateRequired \cup {"firm_id", "letter_id"},
     {"case_id", "extracted_data", "firm_id"}}

\* the bodies sent to /refine
RefineBodies ==
    {RefineRequired, RefineRequired \cup {"conversation_history"},
     {"letter_id", "current_letter", "firm_id"}}

\* the keys of required that keys lacks, joined as the 400 response names them
Missing(required, keys) ==
    Join(SelectSeq(required, LAMBDA f : f \notin keys), ", ")

BadRequest(missing) ==
    [statusCode |-> 400, body |-> [error |-> "Missing required fields: " \o missing]]

InternalError(message) ==
    [statusCode |-> 500, body |-> [error |-> "Internal server error", message |-> message]]

\* handle_generate, lines 202-224: the body is checked and validated, and
\* generate_letter is entered
StartHandleGenerate ==
    /\ \E keys \in GenerateBodies, c \in CaseIds, template_ok \in BOOLEAN :
          LET o == [name |-> "handle_generate", keys |-> keys, case_id |-> c,
                    template_ok |-> template_ok]
              missing == Missing(<<"case_id", "extracted_data", "template_variables">>, keys)
          IN  IF missing # "" \/ ~template_ok
              THEN /\ ostate = "idle"
                   /\ op' = o
                   /\ oresult' = Returned(IF missing # "" THEN BadRequest(missing)
                                          ELSE InternalError("validation error for LetterGenerationRequest"))
                   /\ ostate' = "done"
                   /\ extracted' = None
                   /\ UNCHANGED wvars
              ELSE Begin(o)
    /\ UNCHANGED <<conversation_histories, local_history>>

\* handle_generate, lines 225-269: generate_letter has returned result, the
\* response body is built, the log record reads body["letter_id"], and the
\* response is created; a KeyError is answered by the except clause
CompleteHandleGenerate ==
    /\ InvokeDone("handle_generate")
    /\ ExtractStep("GeneratedLetter")
    /\ LET r == InvokeAndExtract("GeneratedLetter")
           result == IF r.kind = "return" THEN GenerationSucceeded(op, r.val, wresult)
                     ELSE GenerationFailed(op, r.val)
       IN  /\ op' = [name |-> op.name, keys |-> op.keys, case_id |-> op.case_id,
                     template_ok |-> op.template_ok, result |-> result]
           /\ oresult' = Returned(IF "letter_id" \notin op.keys
                                  THEN InternalError("'letter_id'")
                                  ELSE [statusCode |-> IF result.success THEN 200 ELSE 500,
                                        body |-> result])
    /\ ostate' = "done"
    /\ UNCHANGED <<conversation_histories, local_history>>

\* handle_refine, lines 272-374: the body is checked and validated, and
\* refine_letter is called with the keyword letter_id, which it does not
\* take (letter_generator.py lines 205-213): the TypeError is answered by
\* the except clause
HandleRefine ==
    /\ ostate = "idle"
    /\ \E keys \in RefineBodies :
          LET missing == Missing(<<"letter_id", "current_letter", "feedback", "firm_id">>, keys)
          IN  /\ op' = [name |-> "handle_refine", keys |-> keys]
              /\ oresult' =
                     Returned(IF missing # "" THEN BadRequest(missing)
                              ELSE InternalError("LetterGenerator.refine_letter() got an "
                                       \o "unexpected keyword argument 'letter_id'"))
    /\ ostate' = "done"
    /\ extracted' = None
    /\ UNCHANGED <<wvars, conversation_histories, local_history>>

-----------------------------------------------------------------------------
(* One operation of the service, from a handler that holds no session yet   *)

InitOrch ==
    /\ func = "invoke"
    /\ max_retries = InvokeMaxRetries
    /\ base_delay = InvokeBaseDelay
    /\ max_delay = InvokeMaxDelay
    /\ jitter = InvokeJitter
    /\ attempt = 0
    /\ calls = 0
    /\ converse_calls = 0
    /\ sleeps = <<>>
    /\ last_exception = None
    /\ wstate = "idle"
    /\ wresult = None
    /\ outcomes = <<>>
    /\ last_outcome = None
    /\ NoOperation

\* the attempts of the decorated invoke
InvokeReturns == \E v \in ConverseResponses : AttemptReturns(v) /\ UNCHANGED ovars
InvokeClientError ==
    \E e \in ConverseErrors, pct \in Pcts : AttemptClientError(e, pct) /\ UNCHANGED ovars
InvokeClassified ==
    \E e \in ClassifiedErrors, pct \in Pcts : AttemptClassified(e, pct) /\ UNCHANGED ovars
InvokeOther == \E e \in OtherErrors : AttemptOther(e) /\ UNCHANGED ovars

NextOrch ==
    \/ StartInvokeWithTool \/ CompleteInvokeWithTool
    \/ StartAnalyzeDocument \/ CompleteAnalyzeDocument
    \/ StartGenerateLetter \/ CompleteGenerateLetter
    \/ StartRefineLetter \/ CompleteRefineLetter
    \/ StartRegenerateSection \/ CompleteRegenerateSection
    \/ StartAdjustTone \/ CompleteAdjustTone
    \/ StartRefinementSession
    \/ ApplyFeedbackUnknownSession
    \/ StartApplyFeedback \/ CompleteApplyFeedback
    \/ AnalyzePdfDocument
    \/ ValidateLetterCompleteness \/ CompareLetters
    \/ CalculateTotalDamages
    \/ StartHandleGenerate \/ CompleteHandleGenerate \/ HandleRefine
    \/ InvokeReturns \/ InvokeClientError \/ InvokeClassified \/ InvokeOther

SpecOrch == InitOrch /\ [][NextOrch]_vars

-----------------------------------------------------------------------------
(* A handler serving one operation after another on its refinement          *)
(* sessions.  Here client.converse either returns at once or fails with a   *)
(* ClientError that is not retried; the transcripts are kept within         *)
(* MaxMessages messages.                                                    *)

\* what client.converse returns in this specification: a letter equal to
\* LetterA, a letter equal to LetterB, and a response without a toolUse block
SessionResponses ==
    {ResponseWith(<<[toolUse |-> [toolUseId |-> "tu_1", name |-> "tool", input |-> p]]>>) :
        p \in {LetterDictA, LetterDictB}}
    \cup {ResponseWith(<<[text |-> "Here is the result."]>>)}

\* every transcript has room for the messages of k more refinements
RoomFor(k) ==
    \A sid \in DOMAIN conversation_histories :
        Len(conversation_histories[sid].messages) + 2 * k <= MaxMessages

\* the operation has returned or raised to its caller, who may call again
Reset ==
    /\ ostate = "done"
    /\ op' = None
    /\ ostate' = "idle"
    /\ extracted' = None
    /\ oresult' = None
    /\ local_history' = None
    /\ attempt' = 0
    /\ calls' = 0
    /\ converse_calls' = 0
    /\ sleeps' = <<>>
    /\ last_exception' = None
    /\ wstate' = "idle"
    /\ wresult' = None
    /\ outcomes' = <<>>
    /\ last_outcome' = None
    /\ UNCHANGED <<func, max_retries, base_delay, max_delay, jitter, conversation_histories>>

NextSession ==
    \/ StartRefinementSession
    \/ ApplyFeedbackUnknownSession
    \/ (RoomFor(1) /\ StartApplyFeedback)
    \/ CompleteApplyFeedback
    \/ StartRefineLetter \/ CompleteRefineLetter
    \/ ApplyBatchRejected \/ StartApplyBatch \/ CompleteBatchStep
    \/ RollbackToVersion \/ CompareVersions
    \/ StartRefinementSessionFor(SecondCaseId, LetterA)
    \/ ClearSession
    \/ GetVersionHistory \/ GetConversationContext \/ GetRefinementStats
    \/ Reset
    \/ \E v \in SessionResponses : AttemptReturns(v) /\ UNCHANGED ovars
    \/ \E e \in {x \in ConverseErrors : StatusCode(x) = 400} :
          AttemptClientError(e, 50) /\ UNCHANGED ovars

SpecSession == InitOrch /\ [][NextSession]_vars

-----------------------------------------------------------------------------
(* Two calls of apply_feedback on one handler, from two threads that are    *)
(* not synchronized.  A thread may be switched out between any two of its   *)
(* steps: op.threads[t] holds the locals of thread t's call.                *)

Threads == {1, 2}

\* the locals of the two calls
ThreadLocals ==
    IF ostate # "idle" /\ op # None /\ op.name = "apply_feedback (two threads)"
    THEN op.threads
    ELSE [t \in Threads |-> [pc |-> "idle"]]

\* the locals change for thread t; the two calls are over when both are
SetThread(t, locals) ==
    LET threads == [ThreadLocals EXCEPT ![t] = locals]
    IN  /\ op' = [name |-> "apply_feedback (two threads)", threads |-> threads]
        /\ ostate' = IF \A u \in Threads : threads[u].pc = "done" THEN "done" ELSE "invoking"
        /\ oresult' = None
        /\ extracted' = None
        /\ UNCHANGED <<wvars, local_history>>

\* FeedbackHandler.apply_feedback, lines 109-114, in thread t: the session
\* is looked up and its latest version read
ThreadEnter(t) ==
    /\ ThreadLocals[t].pc = "idle"
    /\ \E sid \in SessionIds, cur \in {LetterA}, fb \in Feedbacks :
          IF sid \notin DOMAIN conversation_histories
          THEN SetThread(t, [pc |-> "done", session_id |-> sid,
                             result |-> Raised(ValueError("Refinement session not found: "
                                                          \o sid))])
          ELSE SetThread(t, [pc |-> "entered", session_id |-> sid, current_letter |-> cur,
                             feedback |-> fb,
                             current_version |->
                                 get_latest_version(conversation_histories[sid])])
    /\ UNCHANGED conversation_histories

\* LetterGenerator.refine_letter, lines 240-262, in thread t: the prompt is
\* appended and invoke called
ThreadPrompt(t) ==
    /\ ThreadLocals[t].pc = "entered"
    /\ LET l == ThreadLocals[t]
       IN  /\ conversation_histories' =
                  [conversation_histories EXCEPT
                      ![l.session_id] = add_message(@, "user",
                                                    get_refinement_prompt(l.feedback))]
           /\ SetThread(t, [l EXCEPT !.pc = "invoking"])

\* LetterGenerator.refine_letter, lines 263-307, in thread t: invoke and
\* extract_tool_result give r
ThreadComplete(t) ==
    /\ ThreadLocals[t].pc = "invoking"
    /\ \E v \in SessionResponses :
          LET l == ThreadLocals[t]
              out == RefineWith(l, conversation_histories[l.session_id],
                                extract_tool_result(v, "GeneratedLetter"))
          IN  /\ conversation_histories' =
                     [conversation_histories EXCEPT ![l.session_id] = out.history]
              /\ SetThread(t, [pc |-> "done", session_id |-> l.session_id,
                               current_version |-> l.current_version,
                               result |-> out.result])

-----------------------------------------------------------------------------
(* A handler on which a session is started and then two threads call        *)
(* apply_feedback                                                           *)

NextThreads ==
    \/ StartRefinementSession
    \/ \E t \in Threads : ThreadEnter(t)
    \/ \E t \in Threads : ThreadPrompt(t)
    \/ \E t \in Threads : ThreadComplete(t)

SpecThreads == InitOrch /\ [][NextThreads]_vars

-----------------------------------------------------------------------------
(* extract_tool_result alone: one call, for every response and both models  *)

InitTool ==
    /\ func = "invoke"
    /\ max_retries = InvokeMaxRetries
    /\ base_delay = InvokeBaseDelay
    /\ max_delay = InvokeMaxDelay
    /\ jitter = InvokeJitter
    /\ attempt = 0
    /\ calls = 0
    /\ converse_calls = 0
    /\ sleeps = <<>>
    /\ last_exception = None
    /\ wstate = "idle"
    /\ wresult \in Responses
    /\ outcomes = <<>>
    /\ last_outcome = None
    /\ op \in {[name |-> "extract_tool_result", model |-> m] : m \in Models}
    /\ ostate = "idle"
    /\ extracted = None
    /\ oresult = None
    /\ conversation_histories = <<>>
    /\ local_history = None

\* extract_tool_result(response, model), the response being wresult
ToolExtract ==
    /\ ostate = "idle"
    /\ extracted' = extract_tool_result(wresult, op.model)
    /\ oresult' = extracted'
    /\ ostate' = "done"
    /\ UNCHANGED <<wvars, op, conversation_histories, local_history>>

NextTool == ToolExtract

SpecTool == InitTool /\ [][NextTool]_vars

-----------------------------------------------------------------------------
(* Properties of extract_tool_result (checked under SpecTool) *)

\* the response has a content list
HasContent(r) ==
    /\ "output" \in DOMAIN r
    /\ "message" \in DOMAIN r.output
    /\ "content" \in DOMAIN r.output.message

\* no block of the response's content list is a toolUse block
NoToolUseBlock(r) ==
    HasContent(r) =>
        \A i \in 1..Len(r.output.message.content) :
            "toolUse" \notin DOMAIN r.output.message.content[i]

\* C6: for every response none of whose content blocks is a toolUse block,
\* whatever other blocks it holds and also when its content list is missing
\* or empty, extract_tool_result raises BedrockValidationError "No tool use
\* found in response" and returns no value.
C6_NoToolUseRaises ==
    (extracted # None /\ NoToolUseBlock(wresult)) =>
        /\ extracted.kind = "raise"
        /\ extracted.val.cls = "BedrockValidationError"
        /\ extracted.val.msg = "No tool use found in response"

\* C6 witness: the call was made on a response that holds two text blocks
C6_Witness ==
    /\ extracted # None
    /\ HasContent(wresult)
    /\ Len(wresult.output.message.content) = 2
    /\ NoToolUseBlock(wresult)
    /\ extracted.kind = "raise"

-----------------------------------------------------------------------------
(* Properties of the orchestrators (checked under SpecOrch) *)

\* the operation in progress or just ended
Running(name) == op # None /\ op.name = name
Ended(name) == Running(name) /\ ostate = "done"

\* the response invoke returned did not pass extract_tool_result
ValidationFailed == extracted # None /\ extracted.kind = "raise"

\* the operation's external call or its validation raised, and the message
\* of the exception
CallFailed == wstate = "raised" \/ ValidationFailed
FailureMessage == IF wstate = "raised" THEN wresult.msg ELSE extracted.val.msg

\* C7: when the response of the external call lacks a toolUse block or its
\* payload fails validation, the operation is over and invoke is not entered
\* again: every converse call of the operation was made before the response
\* was validated, the last of them returned that response, and each earlier
\* one failed with throttling or a server error, the only failures retried.
C7_ValidationFailureNotRetried ==
    /\ ValidationFailed =>
          /\ ostate = "done"
          /\ wstate = "returned"
          /\ converse_calls = Len(outcomes)
          /\ converse_calls >= 1
          /\ outcomes[Len(outcomes)] = "returned"
    /\ \A i \in 1..(Len(outcomes) - 1) : outcomes[i] \in {"throttling", "server"}

\* C7 witness: analyze_document got, on the second converse call, a response
\* whose payload does not validate
C7_Witness ==
    /\ Ended("analyze_document")
    /\ ValidationFailed
    /\ extracted.val.msg = "Tool output validation failed: 1 validation error"
    /\ outcomes = <<"throttling", "returned">>
    /\ converse_calls = 2

Orchestrators ==
    {"analyze_document", "generate_letter", "refine_letter", "regenerate_section",
     "adjust_tone", "apply_feedback"}

\* C10: every orchestrator operation (refine_letter, regenerate_section,
\* adjust_tone and apply_feedback included) whose external call or validation
\* raised returns a failure result, with success False and the exception's
\* message, and does not raise.
C10_EveryOperationReturnsFailureResult ==
    (op # None /\ op.name \in Orchestrators /\ ostate = "done" /\ CallFailed) =>
        /\ oresult.kind = "return"
        /\ oresult.val.success = FALSE
        /\ oresult.val.error_message = FailureMessage

\* no page of the PDF yields any text: each returns the empty string or raises
NoPageYieldsText(pdf) == \A i \in 1..Len(pdf) : pdf[i].kind = "raise" \/ pdf[i].val = ""

\* C11: whenever no page of the PDF yields any text, whether the pages return
\* empty text or their extraction raises, analyze_pdf_document ends by raising
\* ValueError, without entering the external call and without a result.
C11_NoTextRaisesValueError ==
    (op # None /\ "pdf_file" \in DOMAIN op /\ NoPageYieldsText(op.pdf_file)) =>
        /\ ostate = "done"
        /\ oresult.kind = "raise"
        /\ oresult.val.cls = "ValueError"
        /\ calls = 0

\* the conversation history the refinement in progress works on
RefinedHistory ==
    IF op.name = "refine_letter" THEN local_history
    ELSE conversation_histories[op.session_id]

\* a refine_letter call (direct, or made by apply_feedback) returns
RefineReturns ==
    /\ ostate = "invoking"
    /\ op.name \in {"refine_letter", "apply_feedback"}
    /\ ostate' = "done"
    /\ oresult'.kind = "return"

\* C12: a refine_letter call that returns appends exactly one version entry
\* to the conversation history, numbered current_version + 1 and holding the
\* refined letter; it does so also when the refined letter equals the
\* current letter, in which case no section is reported modified and the
\* summary is "No changes made (letter unchanged)".
C12_RefineAppendsOneVersion ==
    [][RefineReturns =>
          /\ RefinedHistory'.version_history =
                Append(RefinedHistory.version_history,
                       [version |-> op.current_version + 1,
                        changes_summary |-> oresult'.val.changes_summary,
                        letter_snapshot |-> oresult'.val.refined_letter])
          /\ oresult'.val.refined_letter = op.current_letter =>
                /\ oresult'.val.sections_modified = <<>>
                /\ oresult'.val.changes_summary = "No changes made (letter unchanged)"]_vars

\* C12 witness: apply_feedback returned a letter equal to the current one and
\* the session holds version 2 after the initial version
C12_Witness ==
    /\ Ended("apply_feedback")
    /\ oresult.kind = "return"
    /\ oresult.val.refined_letter = op.current_letter
    /\ oresult.val.changes_summary = "No changes made (letter unchanged)"
    /\ Len(conversation_histories[op.session_id].version_history) = 2
    /\ conversation_histories[op.session_id].version_history[2].version = 2
    /\ conversation_histories[op.session_id].version_history[2].letter_snapshot =
          op.current_letter

-----------------------------------------------------------------------------
(* Properties of the refinement sessions (checked under SpecSession) *)

\* a refine_letter call (direct, or made by apply_feedback) is entered
RefineEntered ==
    /\ ostate = "idle"
    /\ ostate' = "invoking"
    /\ op'.name \in {"refine_letter", "apply_feedback"}

\* the transcript on which the call just entered works, before the call
HistoryBefore ==
    IF op'.name = "refine_letter" THEN NewHistory
    ELSE conversation_histories[op'.session_id]

\* the number of user messages of a transcript
UserCount(h) == Cardinality({i \in 1..Len(h.messages) : h.messages[i].role = "user"})

\* roles alternate user, assistant, user, ... from the first message on
Alternates(h) ==
    \A i \in 1..Len(h.messages) :
        h.messages[i].role = IF i % 2 = 1 THEN "user" ELSE "assistant"

\* C13: a refine_letter call appends the refinement prompt as a user message
\* when it is entered, so that the message is the last of the transcript
\* during every external call, and appends one assistant summary message when
\* it returns: two messages per successful call.  Hence a transcript on which
\* every refinement entered since it was empty has returned (as many user
\* messages as versions appended) alternates user, assistant and holds twice
\* as many messages as refinements.
C13_TwoMessagesPerRefinement ==
    /\ [][RefineEntered =>
             RefinedHistory'.messages =
                 Append(HistoryBefore.messages,
                        [role |-> "user", content |-> get_refinement_prompt(op'.feedback)])]_vars
    /\ []((ostate = "invoking" /\ op.name \in {"refine_letter", "apply_feedback"}) =>
             RefinedHistory.messages[Len(RefinedHistory.messages)] =
                 [role |-> "user", content |-> get_refinement_prompt(op.feedback)])
    /\ [][RefineReturns =>
             RefinedHistory'.messages =
                 Append(RefinedHistory.messages,
                        [role |-> "assistant",
                         content |-> "Letter refined. Changes: "
                                     \o oresult'.val.changes_summary])]_vars
    /\ [](\A sid \in DOMAIN conversation_histories :
             LET h == conversation_histories[sid]
             IN  UserCount(h) = Len(h.version_history) - 1 =>
                    /\ Alternates(h)
                    /\ Len(h.messages) = 2 * (Len(h.version_history) - 1))

\* C13 witness: two refinements returned on a session, the second reporting
\* no change, and its transcript holds four alternating messages
C13_Witness ==
    /\ Ended("apply_feedback")
    /\ oresult.kind = "return"
    /\ oresult.val.sections_modified = <<>>
    /\ LET h == conversation_histories[op.session_id]
       IN  /\ Len(h.version_history) = 3
           /\ Len(h.messages) = 4
           /\ Alternates(h)

-----------------------------------------------------------------------------
(* Properties of the letter checks (checked under SpecOrch) *)

\* the compared value of section sec differs between letters a and b
Differs(a, b, sec) ==
    IF sec = "header" THEN a.header # b.header ELSE a[sec].content # b[sec].content

\* C14: _compare_letters(a, b) returns exactly the sections whose compared
\* value differs (the header as a whole, every other section by its content
\* alone), in the order header, introduction, facts, liability, damages,
\* demand, closing.  Letters that differ only in facts.content give [facts],
\* equal letters give the empty list, and (b, a) gives what (a, b) gives.
C14_CompareLetters ==
    Ended("_compare_letters") =>
        LET a == op.original
            b == op.modified
        IN  /\ oresult.val = SelectSeq(LetterSections, LAMBDA sec : Differs(a, b, sec))
            /\ (a # b /\ b = [a EXCEPT !.facts.content = b.facts.content]) =>
                  oresult.val = <<"facts">>
            /\ a = b => oresult.val = <<>>
            /\ oresult.val = _compare_letters(b, a)

\* C14 witness: two letters that differ in facts.content only
C14_Witness ==
    /\ Ended("_compare_letters")
    /\ op.original # op.modified
    /\ op.modified = [op.original EXCEPT !.facts.content = op.modified.facts.content]
    /\ oresult.val = <<"facts">>

\* the length of s without its leading and trailing whitespace
StrippedLen(s) ==
    LET solid == {i \in 1..Len(s) : SubSeq(s, i, i) \notin {" ", "\n", "\t"}}
    IN  IF solid = {} THEN 0
        ELSE (CHOOSE i \in solid : \A j \in solid : j <= i)
             - (CHOOSE i \in solid : \A j \in solid : i <= j) + 1

\* the seven section checks of the claim, lengths measured by length(_)
SectionChecks(letter, length(_)) ==
    [has_header |-> letter.header.recipient_name # "" /\ letter.header.subject_line # "",
     has_introduction |-> length(letter.introduction.content) > 50,
     has_facts |-> length(letter.facts.content) > 100,
     has_liability |-> length(letter.liability.content) > 100,
     has_damages |-> length(letter.damages.content) > 50 /\ letter.damages.total_damages > 0,
     has_demand |-> length(letter.demand.content) > 50 /\ letter.demand.demand_amount > 0,
     has_closing |-> letter.closing.content # "" /\ letter.closing.signature_block # ""]

\* the result agrees with the seven checks and is_complete is their conjunction
AgreesWith(result, checks) ==
    /\ DOMAIN result = DOMAIN checks \cup {"is_complete"}
    /\ \A c \in DOMAIN checks : result[c] = checks[c]
    /\ result.is_complete = \A c \in DOMAIN checks : checks[c]

\* C15 (amended): validate_letter_completeness returns is_complete true
\* exactly when all seven section checks are true, the lengths being those of
\* the content with leading and trailing whitespace removed: introduction
\* iff that length exceeds 50, facts and liability iff it exceeds 100,
\* damages and demand iff it exceeds 50 and the amount is positive; header
\* iff recipient name and subject line are non-empty, closing iff content and
\* signature block are non-empty.  Lengths of exactly 50 / 100 are invalid,
\* and the letter with all sections empty and zero amounts fails every check.
C15_CompletenessStripped ==
    Ended("validate_letter_completeness") =>
        /\ AgreesWith(oresult.val, SectionChecks(op.letter, StrippedLen))
        /\ StrippedLen(op.letter.introduction.content) = 50 => ~oresult.val.has_introduction
        /\ StrippedLen(op.letter.facts.content) = 100 => ~oresult.val.has_facts
        /\ op.letter = EmptyLetter => \A c \in DOMAIN oresult.val : ~oresult.val[c]

\* C15 witness: an introduction of 55 characters of which 45 remain when the
\* trailing blanks are removed, in a letter otherwise complete
C15_Witness ==
    /\ Ended("validate_letter_completeness")
    /\ Len(op.letter.introduction.content) = 55
    /\ StrippedLen(op.letter.introduction.content) = 45
    /\ ~oresult.val.has_introduction
    /\ oresult.val.has_facts
    /\ ~oresult.val.is_complete

\* C15 as stated: the section checks measure the length of the content itself
C15_CompletenessByLength ==
    Ended("validate_letter_completeness") =>
        AgreesWith(oresult.val, SectionChecks(op.letter, Len))

\* C16: start_refinement_session(case_id, letter) returns case_id followed by
\* "_refinement" and leaves that session with no message and exactly one
\* version entry: version 1, summary "Initial generation", the given letter.
\* This holds also when the session existed before the call: its earlier
\* versions and messages are gone.
C16_SessionStartsAfresh ==
    (ostate = "idle" /\ op # None /\ op.name = "start_refinement_session") =>
        /\ oresult = Returned(op.case_id \o "_refinement")
        /\ op.case_id \o "_refinement" \in DOMAIN conversation_histories
        /\ conversation_histories[op.case_id \o "_refinement"] =
              [messages |-> <<>>,
               version_history |-> <<[version |-> 1, changes_summary |-> "Initial generation",
                                      letter_snapshot |-> op.initial_letter]>>]

\* C16 witness: the session is started again after two refinements, one
\* returned and one failed, with another letter than the first time
C16_Witness ==
    /\ ostate = "idle"
    /\ op # None
    /\ op.name = "start_refinement_session"
    /\ op.previous # None
    /\ Len(op.previous.version_history) = 2
    /\ Len(op.previous.messages) = 3
    /\ op.previous.version_history[1].letter_snapshot # op.initial_letter
    /\ Len(conversation_histories[op.case_id \o "_refinement"].version_history) = 1

-----------------------------------------------------------------------------
(* Properties of the batches of feedback *)

InBatch == ostate # "idle" /\ op.name = "apply_batch_feedback" /\ "applied" \in DOMAIN op

BatchReturned == InBatch /\ ostate = "done" /\ oresult.kind = "return"

PriorityRank(p) == CASE p = "high" -> 0 [] p = "medium" -> 1 [] p = "low" -> 2

PositionIn(l, f) == CHOOSE i \in 1..Len(l) : l[i] = f

Priorities(l) == [i \in 1..Len(l) |-> l[i].priority]

\* C17: apply_batch_feedback passes the items to apply_feedback in
\* non-decreasing rank of priority (high 0, medium 1, low 2), one call per
\* item, items of equal priority in input order; the list given as
\* [low, high, medium] is applied as [high, medium, low]
C17_AppliedByPriority ==
    InBatch =>
        LET l == op.feedback_list
            applied == op.applied
        IN  /\ \A k \in 1..Len(applied) : \E i \in 1..Len(l) : l[i] = applied[k]
            /\ \A j, k \in 1..Len(applied) :
                  j < k =>
                     /\ applied[j] # applied[k]
                     /\ PriorityRank(applied[j].priority) <= PriorityRank(applied[k].priority)
                     /\ applied[j].priority = applied[k].priority
                           => PositionIn(l, applied[j]) < PositionIn(l, applied[k])
            /\ BatchReturned => Len(applied) = Len(l)
            /\ (BatchReturned /\ Priorities(l) = <<"low", "high", "medium">>)
                  => Priorities(applied) = <<"high", "medium", "low">>

C17_Witness ==
    /\ BatchReturned
    /\ Priorities(op.feedback_list) = <<"low", "high", "medium">>
    /\ Priorities(op.applied) = <<"high", "medium", "low">>

C17_WitnessTie ==
    /\ BatchReturned
    /\ Priorities(op.feedback_list) = <<"medium", "high", "medium">>
    /\ op.applied[2] = op.feedback_list[1]

\* the entries that the steps of the batch in progress have appended to the
\* session
BatchVersions ==
    LET vh == conversation_histories[op.session_id].version_history
        n == Len(op.change_summaries)
    IN  SubSeq(vh, Len(vh) - n + 1, Len(vh))

\* the letter that step k of the batch received
StepInput(k) == IF k = 1 THEN op.letter ELSE BatchVersions[k - 1].letter_snapshot

\* C18: each step of a batch receives the refined letter of the step before
\* it (the first one the caller's letter); the result carries the last
\* refined letter, each section that some step modified exactly once, and
\* the summaries of the steps joined with " | " in the order of application
C18_BatchChainsLetters ==
    InBatch =>
        LET done == Len(op.change_summaries)
            Modified(k) == {sec \in {LetterSections[i] : i \in 1..Len(LetterSections)} :
                               Differs(StepInput(k), BatchVersions[k].letter_snapshot, sec)}
            summaries == [k \in 1..done |-> BatchVersions[k].changes_summary]
        IN  /\ ostate = "invoking" =>
                  /\ done = Len(op.applied) - 1
                  /\ op.current_letter = StepInput(done + 1)
            /\ BatchReturned =>
                  LET r == oresult.val
                      sm == r.sections_modified
                  IN  /\ done = Len(op.feedback_list)
                      /\ r.refined_letter = BatchVersions[done].letter_snapshot
                      /\ {sm[i] : i \in 1..Len(sm)} = UNION {Modified(k) : k \in 1..done}
                      /\ \A i, j \in 1..Len(sm) : sm[i] = sm[j] => i = j
                      /\ r.changes_summary = Join(summaries, " | ")

C18_Witness ==
    /\ BatchReturned
    /\ Len(op.feedback_list) = 3
    /\ BatchVersions[1].letter_snapshot # op.letter
    /\ BatchVersions[2].letter_snapshot # BatchVersions[1].letter_snapshot
    /\ BatchVersions[3].letter_snapshot = BatchVersions[2].letter_snapshot
    /\ oresult.val.sections_modified # <<>>

\* C19: apply_batch_feedback raises ValueError when feedback_list is empty
\* ("Feedback list is empty", checked before the session is looked up) or
\* the session is unknown; the model is not called and the session store is
\* left as it was
C19_BatchRejected ==
    [][(/\ ostate = "idle"
        /\ op'.name = "apply_batch_feedback"
        /\ \/ op'.feedback_list = <<>>
           \/ op'.session_id \notin DOMAIN conversation_histories)
       => /\ ostate' = "done"
          /\ oresult'.kind = "raise"
          /\ oresult'.val.cls = "ValueError"
          /\ op'.feedback_list = <<>> => oresult'.val.msg = "Feedback list is empty"
          /\ op'.feedback_list # <<>> =>
                oresult'.val.msg = "Refinement session not found: " \o op'.session_id
          /\ wstate' = "idle" /\ calls' = 0 /\ converse_calls' = 0
          /\ conversation_histories' = conversation_histories]_vars

C19_Witness ==
    /\ Ended("apply_batch_feedback")
    /\ op.feedback_list = <<>>
    /\ op.session_id \notin DOMAIN conversation_histories
    /\ oresult = Raised(ValueError("Feedback list is empty"))

-----------------------------------------------------------------------------
(* Properties of the versions of a session *)

\* the exception of a session or a version that is not there
NotThere(histories, sid, v) ==
    IF sid \notin DOMAIN histories
    THEN ValueError("Refinement session not found: " \o sid)
    ELSE ValueError("Version " \o ToString(v) \o " not found in session " \o sid)

HasVersion(histories, sid, v) ==
    /\ sid \in DOMAIN histories
    /\ \E i \in 1..Len(histories[sid].version_history) :
          histories[sid].version_history[i].version = v

C20_WitnessCompare ==
    /\ Ended("compare_versions")
    /\ op.version_a = 1 /\ op.version_b = 3
    /\ oresult = Raised(ValueError("Version 3 not found in session CASE-42_refinement"))

-----------------------------------------------------------------------------
(* Properties of the version numbers *)

\* C21: without concurrency the version numbers of a session's history are
\* 1, 2, ..., n in append order, and get_latest_version is the number of
\* entries
C21_VersionsCountUp ==
    \A sid \in DOMAIN conversation_histories :
        LET vh == conversation_histories[sid].version_history
        IN  /\ \A i \in 1..Len(vh) : vh[i].version = i
            /\ get_latest_version(conversation_histories[sid]) = Len(vh)

C21_Witness ==
    /\ Ended("apply_feedback")
    /\ oresult.kind = "return"
    /\ op.session_id \in DOMAIN conversation_histories
    /\ LET vh == conversation_histories[op.session_id].version_history
       IN  /\ Len(vh) = 4
           /\ vh[4].version = 4
           /\ op.current_version = 3

-----------------------------------------------------------------------------
(* Properties of two threads on one session *)

\* both calls have returned a result, and both had read the version v
BothRefinedFrom(v) ==
    /\ ostate = "done"
    /\ op.name = "apply_feedback (two threads)"
    /\ \A t \in Threads :
          /\ op.threads[t].result.kind = "return"
          /\ op.threads[t].current_version = v

\* C22: when two unsynchronized apply_feedback calls on one session both
\* read the same latest version v and both complete, a version is lost: the
\* two entries they append carry the same number v + 1, and the latest
\* version has advanced by one only
C22_LostVersion ==
    \A v \in 0..MaxVersion :
        BothRefinedFrom(v) =>
            LET h == conversation_histories[op.threads[1].session_id]
                vh == h.version_history
                new == {i \in 1..Len(vh) : vh[i].version > v}
            IN  /\ Cardinality(new) = 2
                /\ \A i \in new : vh[i].version = v + 1
                /\ get_latest_version(h) = v + 1

C22_Witness ==
    /\ BothRefinedFrom(1)
    /\ LET h == conversation_histories[op.threads[1].session_id]
       IN  /\ Len(h.version_history) = 3
           /\ h.version_history[2].version = 2
           /\ h.version_history[3].version = 2
           /\ get_latest_version(h) = 2
           /\ Len(h.messages) = 4

-----------------------------------------------------------------------------
(* Properties of the session store *)

SessionNotFound(sid) == Raised(ValueError("Refinement session not found: " \o sid))

\* C23: a session exists from start_refinement_session until clear_session.
\* clear_session(id) removes session id alone and raises nothing, also when
\* id is unknown (nothing changes then); a session enters the store only by
\* start_refinement_session and leaves it only by clear_session; and
\* apply_feedback, get_version_history, rollback_to_version and
\* get_conversation_context on an id that is not in the store raise
\* ValueError
C23_SessionLifetime ==
    /\ [][(ostate = "idle" /\ op'.name = "clear_session") =>
             /\ oresult' = Returned(None)
             /\ DOMAIN conversation_histories' =
                    DOMAIN conversation_histories \ {op'.session_id}
             /\ \A x \in DOMAIN conversation_histories' :
                    conversation_histories'[x] = conversation_histories[x]]_vars
    /\ [][\A sid \in StoreIds :
             /\ (sid \in DOMAIN conversation_histories
                 /\ sid \notin DOMAIN conversation_histories')
                   => op'.name = "clear_session" /\ op'.session_id = sid
             /\ (sid \notin DOMAIN conversation_histories
                 /\ sid \in DOMAIN conversation_histories')
                   => op'.name = "start_refinement_session"
                      /\ SessionIdOf(op'.case_id) = sid]_vars
    /\ [](\A name \in {"apply_feedback", "get_version_history", "rollback_to_version",
                       "get_conversation_context"} :
             (Ended(name) /\ op.session_id \notin DOMAIN conversation_histories)
                => oresult = SessionNotFound(op.session_id))

C23_Witness ==
    /\ Ended("clear_session")
    /\ op.existed
    /\ op.session_id = SessionIdOf("CASE-42")
    /\ DOMAIN conversation_histories = {SessionIdOf(SecondCaseId)}
    /\ Len(conversation_histories[SessionIdOf(SecondCaseId)].version_history) = 1

C23_WitnessRaises ==
    /\ Ended("get_conversation_context")
    /\ SessionIdOf(SecondCaseId) \in DOMAIN conversation_histories
    /\ oresult = SessionNotFound("CASE-42_refinement")

ReadOnlyOperations ==
    {"rollback_to_version", "compare_versions", "get_version_history",
     "get_conversation_context", "get_refinement_stats"}

\* the highest version number of history h
MaxVersionIn(h) ==
    LET vh == h.version_history
    IN  CHOOSE v \in {vh[i].version : i \in 1..Len(vh)} :
            \A i \in 1..Len(vh) : vh[i].version <= v

\* C29: rollback_to_version, compare_versions, get_version_history,
\* get_conversation_context and get_refinement_stats leave the session store
\* as it is (after a rollback the later versions are still there), and an
\* apply_feedback that returns appends the version numbered one above the
\* highest number the history held, whatever was rolled back to before
C29_ReadOnlyOperations ==
    /\ [][(ostate = "idle" /\ op'.name \in ReadOnlyOperations)
             => conversation_histories' = conversation_histories]_vars
    /\ [][(/\ ostate = "invoking" /\ op.name = "apply_feedback"
           /\ ostate' = "done" /\ oresult'.kind = "return")
             => LET vh == conversation_histories'[op.session_id].version_history
                IN  vh[Len(vh)].version =
                        MaxVersionIn(conversation_histories[op.session_id]) + 1]_vars

C29_Witness ==
    /\ Ended("rollback_to_version")
    /\ op.target_version = 1
    /\ op.session_id \in DOMAIN conversation_histories
    /\ oresult = Returned(conversation_histories[op.session_id]
                              .version_history[1].letter_snapshot)
    /\ Len(conversation_histories[op.session_id].version_history) = 3
    /\ Len(conversation_histories[op.session_id].messages) = 4

-----------------------------------------------------------------------------
(* Properties of the damages (checked under SpecOrch) *)

\* the sum of amount over the positions of I
RECURSIVE AmountsAt(_, _)
AmountsAt(damages, I) ==
    IF I = {} THEN 0
    ELSE LET i == CHOOSE i \in I : TRUE
         IN  damages[i].amount + AmountsAt(damages, I \ {i})

\* C24: calculate_total_damages is the sum of the amounts of the entries
\* that have one; the others add nothing and raise nothing, the empty list
\* gives 0, and amounts 100, None, 50 give 150
C24_TotalOfKnownAmounts ==
    Ended("calculate_total_damages") =>
        LET damages == op.damages
            known == {i \in 1..Len(damages) : "amount" \in DOMAIN damages[i]}
        IN  /\ oresult = Returned(AmountsAt(damages, known))
            /\ damages = <<>> => oresult = Returned(0)

C24_Witness ==
    /\ Ended("calculate_total_damages")
    /\ Len(op.damages) = 3
    /\ "amount" \in DOMAIN op.damages[1] /\ op.damages[1].amount = 100
    /\ "amount" \notin DOMAIN op.damages[2]
    /\ "amount" \in DOMAIN op.damages[3] /\ op.damages[3].amount = 50
    /\ oresult = Returned(150)

-----------------------------------------------------------------------------
(* Properties of the classification of ClientErrors (checked under SpecRetry) *)

\* what the response of a ClientError carries
CarriesCode(r, c) ==
    "Error" \in DOMAIN r /\ "Code" \in DOMAIN r.Error /\ r.Error.Code = c
CarriesStatus(r) ==
    "ResponseMetadata" \in DOMAIN r /\ "HTTPStatusCode" \in DOMAIN r.ResponseMetadata

ThrottlingResponse(r) ==
    \/ CarriesCode(r, "ThrottlingException")
    \/ CarriesStatus(r) /\ r.ResponseMetadata.HTTPStatusCode = 429
ServerErrorResponse(r) ==
    /\ ~ThrottlingResponse(r)
    /\ CarriesStatus(r) /\ r.ResponseMetadata.HTTPStatusCode >= 500

\* C25: a ClientError raised by the call is taken for throttling when its
\* code is ThrottlingException or its status 429 (either alone, also without
\* a status code), for a server error when it is not throttling and its
\* status is 500 or more, and is not retried otherwise (also without a status
\* code): the first two are kept as BedrockThrottlingError and
\* BedrockServerError and retried until the attempts are used up, the last is
\* raised as it is
C25_ClientErrorClasses ==
    (Called /\ last_outcome.kind = "raise" /\ last_outcome.val.cls = "ClientError") =>
        LET e == last_outcome.val
            r == e.response
            class == outcomes[Len(outcomes)]
        IN  /\ ThrottlingResponse(r) =>
                  /\ class = "throttling"
                  /\ last_exception.cls = "BedrockThrottlingError"
                  /\ IF calls <= max_retries THEN wstate = "running"
                     ELSE wstate = "raised" /\ wresult = last_exception
            /\ ServerErrorResponse(r) =>
                  /\ class = "server"
                  /\ last_exception.cls = "BedrockServerError"
                  /\ IF calls <= max_retries THEN wstate = "running"
                     ELSE wstate = "raised" /\ wresult = last_exception
            /\ (~ThrottlingResponse(r) /\ ~ServerErrorResponse(r)) =>
                  /\ class = "nonretryable"
                  /\ wstate = "raised"
                  /\ wresult = e

C25_Witness ==
    /\ Called
    /\ last_outcome = Raised(ClientError([Error |-> [Code |-> "ThrottlingException"]]))
    /\ last_exception.cls = "BedrockThrottlingError"
    /\ wstate = "running"
    /\ calls = 2
    /\ outcomes[1] = "server"

C25_WitnessNoStatus ==
    /\ Called
    /\ last_outcome = Raised(ClientError([Error |-> [Code |-> "ValidationException"]]))
    /\ wstate = "raised"
    /\ wresult = last_outcome.val

-----------------------------------------------------------------------------
(* Properties of the token usage (checked under SpecOrch) *)

\* the counts that BedrockClient.invoke reads from the usage block of the
\* response (bedrock/client.py lines 147-150), 0 where there is none
ReportedUsage(response) ==
    LET usage == IF "usage" \in DOMAIN response THEN response.usage ELSE <<>>
    IN  [input_tokens  |-> IF "inputTokens" \in DOMAIN usage THEN usage.inputTokens ELSE 0,
         output_tokens |-> IF "outputTokens" \in DOMAIN usage THEN usage.outputTokens ELSE 0]

\* C26: on success, the token_usage of analyze_document is the input and
\* output token counts of the usage block of the response, as generate_letter
\* reports them for the same block
C26_AnalyzeReportsUsage ==
    (Ended("analyze_document") /\ oresult.kind = "return" /\ oresult.val.success) =>
        oresult.val.token_usage = ReportedUsage(wresult)

\* generate_letter does report them
C26_GenerateReportsUsage ==
    (Ended("generate_letter") /\ oresult.kind = "return" /\ oresult.val.success) =>
        oresult.val.token_usage = ReportedUsage(wresult)

-----------------------------------------------------------------------------
(* Properties of the refinements that fail (checked under SpecSession) *)

\* a refine_letter call (direct, or made by apply_feedback) raises
RefineRaises ==
    /\ ostate = "invoking"
    /\ op.name \in {"refine_letter", "apply_feedback"}
    /\ ostate' = "done"
    /\ oresult'.kind = "raise"

LastTwoFromUser(h) ==
    /\ Len(h.messages) >= 2
    /\ h.messages[Len(h.messages)].role = "user"
    /\ h.messages[Len(h.messages) - 1].role = "user"

\* C27: when the external call or the validation fails during refine_letter
\* (called directly or by apply_feedback), the exception propagates, no
\* version and no assistant message is appended, and the prompt appended
\* before the call stays the last message of the history; the next
\* refinement on that history is then entered with two user messages in a
\* row at the end of the messages it sends
C27_FailedRefinementKeepsPrompt ==
    /\ [][RefineRaises =>
             /\ CallFailed'
             /\ oresult'.val = IF wstate = "raised" THEN wresult ELSE extracted'.val
             /\ RefinedHistory' = RefinedHistory
             /\ RefinedHistory.messages[Len(RefinedHistory.messages)] =
                    [role |-> "user", content |-> get_refinement_prompt(op.feedback)]]_vars
    /\ [][(/\ RefineEntered
           /\ HistoryBefore.messages # <<>>
           /\ HistoryBefore.messages[Len(HistoryBefore.messages)].role = "user")
             => LastTwoFromUser(RefinedHistory')]_vars

C27_Witness ==
    /\ ostate = "invoking"
    /\ op.name = "apply_feedback"
    /\ LET h == conversation_histories[op.session_id]
       IN  /\ Len(h.version_history) = 1
           /\ Len(h.messages) = 2
           /\ LastTwoFromUser(h)

-----------------------------------------------------------------------------
(* Properties of the batches that fail (checked under SpecSession) *)

\* a step of apply_batch_feedback has raised
BatchRaised == InBatch /\ ostate = "done" /\ oresult.kind = "raise"

\* C28: apply_batch_feedback is not atomic.  When its k-th step raises, the
\* batch raises that exception and returns no result, no further item is
\* applied, and the store keeps what the k - 1 steps before it appended:
\* their versions and their pairs of messages, followed by the prompt of the
\* step that raised
C28_BatchNotAtomic ==
    /\ [][(/\ ostate = "invoking" /\ op.name = "apply_batch_feedback"
           /\ ostate' = "done" /\ oresult'.kind = "raise")
             => /\ conversation_histories' = conversation_histories
                /\ op' = op
                /\ CallFailed'
                /\ oresult'.val = IF wstate = "raised" THEN wresult ELSE extracted'.val]_vars
    /\ [](BatchRaised =>
             LET k == Len(op.applied)
                 h == conversation_histories[op.session_id]
                 m == h.messages
                 first == Len(m) - 2 * (k - 1)
             IN  /\ k <= Len(op.feedback_list)
                 /\ Len(op.change_summaries) = k - 1
                 /\ Len(h.version_history) >= k
                 /\ \A j \in 1..(k - 1) :
                       /\ BatchVersions[j].changes_summary = op.change_summaries[j]
                       /\ m[first + 2 * (j - 1)] =
                              [role |-> "user",
                               content |-> get_refinement_prompt(op.applied[j])]
                       /\ m[first + 2 * (j - 1) + 1] =
                              [role |-> "assistant",
                               content |-> "Letter refined. Changes: "
                                           \o op.change_summaries[j]]
                 /\ m[Len(m)] = [role |-> "user",
                                 content |-> get_refinement_prompt(op.applied[k])])

C28_Witness ==
    /\ BatchRaised
    /\ Len(op.feedback_list) = 3
    /\ Len(op.applied) = 2
    /\ LET h == conversation_histories[op.session_id]
       IN  /\ Len(h.version_history) = 2
           /\ h.version_history[2].letter_snapshot = LetterB
           /\ Len(h.messages) = 3

-----------------------------------------------------------------------------
(* Properties of the Lambda routes (checked under SpecOrch) *)

\* C30: for a body with the documented required fields, handle_generate
\* answers 200 exactly when generate_letter reports success and 500
\* otherwise, and handle_refine never answers 500 for a refinement that
\* succeeded
C30_StatusFollowsSuccess ==
    /\ (Ended("handle_generate") /\ GenerateRequired \subseteq op.keys
        /\ "result" \in DOMAIN op) =>
          oresult.val.statusCode = IF op.result.success THEN 200 ELSE 500
    /\ (Ended("handle_refine") /\ RefineRequired \subseteq op.keys) =>
          oresult.val.statusCode \in {200, 500}

\* with a letter_id in the body the status does follow the result
C30_StatusWithLetterId ==
    (Ended("handle_generate") /\ "letter_id" \in op.keys /\ "result" \in DOMAIN op) =>
        oresult.val.statusCode = IF op.result.success THEN 200 ELSE 500

\* handle_refine never answers 200
C30_RefineNeverSucceeds ==
    Ended("handle_refine") => /\ oresult.val.statusCode \in {400, 500}
                              /\ converse_calls = 0

=============================================================================
